---- MODULE Spec2Model ----
(***************************************************************************)
(* Verification model of the PPTX round-trip engine (backend/server.js,    *)
(* backend/fix-pptx.js, backend/insertImage.js, backend/tableGenerator.js).*)
(*                                                                         *)
(* The module holds several specifications over one set of variables:      *)
(*   SpecMatch  the element matcher of the two generate endpoints          *)
(*   SpecEmu    the EMU <-> inch conversions of extractor and patchers     *)
(*   SpecText   the text patcher replaceTextInXml                          *)
(*   SpecFix    the dimension normalizer fixPptxImageDimensions            *)
(*   SpecGen    one POST /api/generate request: slide loop, text and image *)
(*              patches, write-back, normalizer                            *)
(*   SpecNames  two concurrent requests creating files in uploads/         *)
(*   SpecParse  parsePptx: slide discovery, numbering, relationship parts  *)
(*   SpecTable  the table injector insertTableIntoSlide                    *)
(*   SpecApply  the slide loops of POST /api/generate and                  *)
(*              GET /api/generate-template: which slide an entry goes to   *)
(*   SpecExtract  extractSlideElements: the elements made of a shape tree  *)
(*   SpecOrder  the text elements of one entry applied one after another   *)
(*   SpecImage  one call of the image patcher processImageForPptx          *)
(*   SpecClean  the files of one POST /api/generate request in uploads/,   *)
(*              SpecCleanFair with every enabled step taken                *)
(* Variables that a specification does not use stay at their idle value.   *)
(***************************************************************************)
EXTENDS Integers, Sequences, FiniteSets, TLC

VARIABLES
    mOriginals,   \* matcher: originalSlide.elements
    mEdited,      \* matcher: the edited element
    mResult,      \* matcher: originalElement after the three find() calls
    mPc,          \* matcher: "start" | "generate" | "template"
    uAttr,        \* converter: an a:off/a:ext attribute string of the source slide
    uEdit,        \* converter: element.x of an edited element (a JS value)
    uInches,      \* converter: the extracted element's x (a double)
    uOut,         \* converter: the attribute string written to the slide XML
    uPc,          \* converter: which conversion ran
    tXml,         \* text patcher: slideXml, the argument
    tOld,         \* text patcher: oldText
    tNew,         \* text patcher: newText
    tOut,         \* text patcher: the returned XML
    tPc,          \* text patcher: "start" | "done"
    fIn,          \* normalizer: the slides of the archive at inputPath
    fOut,         \* normalizer: the slides of the archive at outputPath
    fPc,          \* normalizer: "start" | "fixed" (true) | "failed" (false) | "again"
    fAgain,       \* normalizer: the slides after a run on its own output
    gOrig,        \* generate: the slides of the uploaded file, by slide number
    gIds,         \* generate: the slide ids of slidesData, in request order
    gSlides,      \* generate: contents, the slide parts by slide number
    gRels,        \* generate: contents, the relationship part of each slide
    gI,           \* generate: entries of slidesData the loop has gone through
    gElems,       \* generate: elements of the current entry gone through
    gLocal,       \* generate: the loop's local slideXml
    gDone,        \* generate: per entry gone through, "skipped" | "written"
    gClock,       \* generate: Date.now()
    gOut,         \* generate: the slides of the archive sent back
    gFailed,      \* generate: a call of processImageForPptx returned false
    gPc,          \* generate: "parse" | "loop" | "slide" | "sent" | "error"
    nClock,       \* file names: Date.now()
    nUuid,        \* file names: how many UUIDs crypto.randomUUID() has handed out
    nReqs,        \* file names: per request its endpoint and the name it carries
    nPaths,       \* file names: per request the paths it created in uploads/
    pNames,       \* parsePptx: Object.keys(contents.files), in archive order
    pBroken,      \* parsePptx: the numbers of the slides whose XML does not parse
    pOut,         \* parsePptx: the slides returned
    pPc,          \* parsePptx: "start" | "returned" | "threw"
    bXml,         \* table injector: slideXml, the argument
    bData,        \* table injector: tableData
    bElem,        \* table injector: element
    bOut,         \* table injector: the returned XML
    bPc,          \* table injector: "start" | "done"
    eNums,        \* slide loops: the slide numbers of the archive, ascending
    eIds,         \* slide loops: the ids of slidesData, in request order
    eI,           \* slide loops: the loop index i
    eApplied,     \* slide loops: per entry gone through, where its edits went
    ePc,          \* slide loops: "start" | "generate" | "template" | "done"
    xTree,        \* extractor: the children of the slide's shape tree, in document order
    xRels,        \* extractor: relationships, the Relationship entries the slide sees
    xFiles,       \* extractor: Object.keys(zipContents.files), in archive order
    xOut,         \* extractor: the elements returned
    xPc,          \* extractor: "start" | "done"
    cFiles,       \* clean-up: the files of the request in the uploads directory
    cCreated,     \* clean-up: every file the request has created there
    cPc,          \* clean-up: where the handler of POST /api/generate is
    oXml,         \* edit order: the slide part in the archive
    oEdits,       \* edit order: the text elements of the entry, in request order
    oI,           \* edit order: elements gone through
    oLocal,       \* edit order: the loop's local slideXml
    oPc,          \* edit order: "start" | "slide" | "written"
    iC,           \* image patcher: contents, slide part and relationship part
    iElement,     \* image patcher: element
    iNow,         \* image patcher: Date.now()
    iOut,         \* image patcher: contents after the call
    iPc           \* image patcher: "start" | "done"

matchVars == <<mOriginals, mEdited, mResult, mPc>>

emuVars == <<uAttr, uEdit, uInches, uOut, uPc>>

textVars == <<tXml, tOld, tNew, tOut, tPc>>

fixVars == <<fIn, fOut, fPc, fAgain>>

genVars ==
    <<gOrig, gIds, gSlides, gRels, gI, gElems, gLocal, gDone, gClock, gOut, gFailed, gPc>>

namesVars == <<nClock, nUuid, nReqs, nPaths>>

parseVars == <<pNames, pBroken, pOut, pPc>>

tableVars == <<bXml, bData, bElem, bOut, bPc>>

applyVars == <<eNums, eIds, eI, eApplied, ePc>>

extractVars == <<xTree, xRels, xFiles, xOut, xPc>>

cleanVars == <<cFiles, cCreated, cPc>>

orderVars == <<oXml, oEdits, oI, oLocal, oPc>>

imageVars == <<iC, iElement, iNow, iOut, iPc>>

vars ==
    <<matchVars, emuVars, textVars, fixVars, genVars,
      namesVars, parseVars, tableVars, applyVars, extractVars, cleanVars, orderVars,
      imageVars>>

\* what the actions of one specification leave alone
exceptMatch ==
    <<emuVars, textVars, fixVars, genVars, namesVars, parseVars, tableVars, applyVars,
      extractVars, cleanVars, orderVars,
      imageVars>>

exceptEmu ==
    <<matchVars, textVars, fixVars, genVars, namesVars, parseVars, tableVars, applyVars,
      extractVars, cleanVars, orderVars,
      imageVars>>

exceptText ==
    <<matchVars, emuVars, fixVars, genVars, namesVars, parseVars, tableVars, applyVars,
      extractVars, cleanVars, orderVars,
      imageVars>>

exceptFix ==
    <<matchVars, emuVars, textVars, genVars, namesVars, parseVars, tableVars, applyVars,
      extractVars, cleanVars, orderVars,
      imageVars>>

exceptGen ==
    <<matchVars, emuVars, textVars, fixVars, namesVars, parseVars, tableVars, applyVars,
      extractVars, cleanVars, orderVars,
      imageVars>>

exceptNames ==
    <<matchVars, emuVars, textVars, fixVars, genVars, parseVars, tableVars, applyVars,
      extractVars, cleanVars, orderVars,
      imageVars>>

exceptParse ==
    <<matchVars, emuVars, textVars, fixVars, genVars, namesVars, tableVars, applyVars,
      extractVars, cleanVars, orderVars,
      imageVars>>

exceptTable ==
    <<matchVars, emuVars, textVars, fixVars, genVars, namesVars, parseVars, applyVars,
      extractVars, cleanVars, orderVars,
      imageVars>>

exceptApply ==
    <<matchVars, emuVars, textVars, fixVars, genVars, namesVars, parseVars, tableVars,
      extractVars, cleanVars, orderVars,
      imageVars>>

exceptExtract ==
    <<matchVars, emuVars, textVars, fixVars, genVars, namesVars, parseVars, tableVars,
      applyVars, cleanVars, orderVars, imageVars>>

exceptClean ==
    <<matchVars, emuVars, textVars, fixVars, genVars, namesVars, parseVars, tableVars,
      applyVars, extractVars, orderVars, imageVars>>

exceptOrder ==
    <<matchVars, emuVars, textVars, fixVars, genVars, namesVars, parseVars, tableVars,
      applyVars, extractVars, cleanVars, imageVars>>

exceptImage ==
    <<matchVars, emuVars, textVars, fixVars, genVars, namesVars, parseVars, tableVars,
      applyVars, extractVars, cleanVars, orderVars>>

(***************************************************************************)
(* Generic helpers                                                         *)
(***************************************************************************)
Abs(n) == IF n < 0 THEN -n ELSE n

Min(S) == CHOOSE m \in S : \A n \in S : m <= n

\* Sequences over S of length 0..n
SeqUpTo(S, n) == UNION {[1..k -> S] : k \in 0..n}

\* the element of a one-element set; The({e : v \in {x}}) is e with v the
\* value of x, computed once
The(S) == CHOOSE v \in S : TRUE

(***************************************************************************)
(* Idle values of the variables a specification does not use               *)
(***************************************************************************)
\* the JS value NaN where the model holds an integer
NaN == -999999

\* undefined / null where the model holds an element
Null == [id |-> "null", type |-> "null", x |-> 0, y |-> 0]

MatchIdle ==
    /\ mOriginals = <<>>
    /\ mEdited = Null
    /\ mResult = Null
    /\ mPc = "idle"

EmuIdle ==
    /\ uAttr = <<>>
    /\ uEdit = [kind |-> "undefined", n |-> 0]
    /\ uInches = [nan |-> TRUE, m |-> <<>>, k |-> 0]
    /\ uOut = <<>>
    /\ uPc = "idle"

TextIdle ==
    /\ tXml = <<>>
    /\ tOld = <<>>
    /\ tNew = <<>>
    /\ tOut = <<>>
    /\ tPc = "idle"

FixIdle ==
    /\ fIn = <<>>
    /\ fOut = <<>>
    /\ fPc = "idle"
    /\ fAgain = <<>>

GenIdle ==
    /\ gOrig = <<>>
    /\ gIds = <<>>
    /\ gSlides = <<>>
    /\ gRels = <<>>
    /\ gI = 0
    /\ gElems = 0
    /\ gLocal = <<>>
    /\ gDone = <<>>
    /\ gClock = 0
    /\ gOut = <<>>
    /\ gFailed = FALSE
    /\ gPc = "idle"

NamesIdle ==
    /\ nClock = 0
    /\ nUuid = 0
    /\ nReqs = <<>>
    /\ nPaths = <<>>

ParseIdle ==
    /\ pNames = <<>>
    /\ pBroken = {}
    /\ pOut = <<>>
    /\ pPc = "idle"

TableIdle ==
    /\ bXml = <<>>
    /\ bData = [kind |-> "undefined", rows |-> <<>>]
    /\ bElem = <<>>
    /\ bOut = <<>>
    /\ bPc = "idle"

ApplyIdle ==
    /\ eNums = <<>>
    /\ eIds = <<>>
    /\ eI = 0
    /\ eApplied = <<>>
    /\ ePc = "idle"

ExtractIdle ==
    /\ xTree = <<>>
    /\ xRels = <<>>
    /\ xFiles = <<>>
    /\ xOut = <<>>
    /\ xPc = "idle"

CleanIdle ==
    /\ cFiles = {}
    /\ cCreated = {}
    /\ cPc = "idle"

OrderIdle ==
    /\ oXml = <<>>
    /\ oEdits = <<>>
    /\ oI = 0
    /\ oLocal = <<>>
    /\ oPc = "idle"

ImageIdle ==
    /\ iC = <<>>
    /\ iElement = <<>>
    /\ iNow = 0
    /\ iOut = <<>>
    /\ iPc = "idle"

IdleExceptMatch ==
    /\ EmuIdle /\ TextIdle /\ FixIdle /\ GenIdle
    /\ NamesIdle /\ ParseIdle /\ TableIdle /\ ApplyIdle
    /\ ExtractIdle /\ CleanIdle /\ OrderIdle
    /\ ImageIdle

IdleExceptEmu ==
    /\ MatchIdle /\ TextIdle /\ FixIdle /\ GenIdle
    /\ NamesIdle /\ ParseIdle /\ TableIdle /\ ApplyIdle
    /\ ExtractIdle /\ CleanIdle /\ OrderIdle
    /\ ImageIdle

IdleExceptText ==
    /\ MatchIdle /\ EmuIdle /\ FixIdle /\ GenIdle
    /\ NamesIdle /\ ParseIdle /\ TableIdle /\ ApplyIdle
    /\ ExtractIdle /\ CleanIdle /\ OrderIdle
    /\ ImageIdle

IdleExceptFix ==
    /\ MatchIdle /\ EmuIdle /\ TextIdle /\ GenIdle
    /\ NamesIdle /\ ParseIdle /\ TableIdle /\ ApplyIdle
    /\ ExtractIdle /\ CleanIdle /\ OrderIdle
    /\ ImageIdle

IdleExceptGen ==
    /\ MatchIdle /\ EmuIdle /\ TextIdle /\ FixIdle
    /\ NamesIdle /\ ParseIdle /\ TableIdle /\ ApplyIdle
    /\ ExtractIdle /\ CleanIdle /\ OrderIdle
    /\ ImageIdle

IdleExceptNames ==
    /\ MatchIdle /\ EmuIdle /\ TextIdle /\ FixIdle
    /\ GenIdle /\ ParseIdle /\ TableIdle /\ ApplyIdle
    /\ ExtractIdle /\ CleanIdle /\ OrderIdle
    /\ ImageIdle

IdleExceptParse ==
    /\ MatchIdle /\ EmuIdle /\ TextIdle /\ FixIdle
    /\ GenIdle /\ NamesIdle /\ TableIdle /\ ApplyIdle
    /\ ExtractIdle /\ CleanIdle /\ OrderIdle
    /\ ImageIdle

IdleExceptTable ==
    /\ MatchIdle /\ EmuIdle /\ TextIdle /\ FixIdle
    /\ GenIdle /\ NamesIdle /\ ParseIdle /\ ApplyIdle
    /\ ExtractIdle /\ CleanIdle /\ OrderIdle
    /\ ImageIdle

IdleExceptApply ==
    /\ MatchIdle /\ EmuIdle /\ TextIdle /\ FixIdle
    /\ GenIdle /\ NamesIdle /\ ParseIdle /\ TableIdle
    /\ ExtractIdle /\ CleanIdle /\ OrderIdle
    /\ ImageIdle

IdleExceptExtract ==
    /\ MatchIdle /\ EmuIdle /\ TextIdle /\ FixIdle /\ GenIdle
    /\ NamesIdle /\ ParseIdle /\ TableIdle /\ ApplyIdle /\ CleanIdle /\ OrderIdle
    /\ ImageIdle

IdleExceptClean ==
    /\ MatchIdle /\ EmuIdle /\ TextIdle /\ FixIdle /\ GenIdle
    /\ NamesIdle /\ ParseIdle /\ TableIdle /\ ApplyIdle /\ ExtractIdle /\ OrderIdle
    /\ ImageIdle

IdleExceptOrder ==
    /\ MatchIdle /\ EmuIdle /\ TextIdle /\ FixIdle /\ GenIdle
    /\ NamesIdle /\ ParseIdle /\ TableIdle /\ ApplyIdle /\ ExtractIdle /\ CleanIdle
    /\ ImageIdle

IdleExceptImage ==
    /\ MatchIdle /\ EmuIdle /\ TextIdle /\ FixIdle /\ GenIdle
    /\ NamesIdle /\ ParseIdle /\ TableIdle /\ ApplyIdle /\ ExtractIdle /\ CleanIdle
    /\ OrderIdle

(***************************************************************************)
(* Element matcher.  Positions are inches in hundredths (exact); NaN is    *)
(* the value of a missing or non-numeric coordinate.                       *)
(***************************************************************************)
MaxOriginals == 2

TightTol == 10      \* 0.1 inch, in hundredths
LooseTol == 100     \* 1 inch, in hundredths

OriginalIds == {"text-0", "image-1", "text-2"}
EditedIds == OriginalIds \cup {"new-9"}
ElementTypes == {"text", "image"}
OriginalXs == {0, 10, 100}
EditedXs == {0, 9, 10, 99, 100, NaN}
EditedYs == {0, 50}

OriginalElements == [id : OriginalIds, type : ElementTypes, x : OriginalXs, y : {0}]
EditedElements == [id : EditedIds, type : ElementTypes, x : EditedXs, y : EditedYs]

\* extractSlideElements gives every element of a slide its own id
OriginalLists ==
    {l \in SeqUpTo(OriginalElements, MaxOriginals) :
        \A i, j \in 1..Len(l) : i # j => l[i].id # l[j].id}

\* Math.abs(a - b) < tol; any comparison with NaN is false
Within(a, b, tol) == a # NaN /\ b # NaN /\ Abs(a - b) < tol

\* Array.prototype.find: the first element for which the callback returned
\* true (hit[i] is the callback's result on list[i]), or undefined
RECURSIVE FindFrom(_, _, _)
FindFrom(list, hit, i) ==
    IF i > Len(list) THEN Null
    ELSE IF hit[i] THEN list[i]
    ELSE FindFrom(list, hit, i + 1)

Find(list, hit) == FindFrom(list, hit, 1)

\* el.type === element.type && |el.x - element.x| < tol && |el.y - element.y| < tol
SameTypeWithin(el, element, tol) ==
    /\ el.type = element.type
    /\ Within(el.x, element.x, tol)
    /\ Within(el.y, element.y, tol)

\* a matcher that tries the tight position tier before the id tier
findOriginalGenerate_posFirst(list, element) ==
    LET byId == [i \in 1..Len(list) |-> list[i].id = element.id]
        tight == [i \in 1..Len(list) |-> SameTypeWithin(list[i], element, TightTol)]
        loose == [i \in 1..Len(list) |-> SameTypeWithin(list[i], element, LooseTol)]
        r1 == Find(list, tight)
        r2 == IF r1 = Null THEN Find(list, byId) ELSE r1
        r3 == IF r2 = Null THEN Find(list, loose) ELSE r2
    IN  r3

\* POST /api/generate: originalElement after the three find() calls
findOriginalGenerate(list, element) ==
    LET byId == [i \in 1..Len(list) |-> list[i].id = element.id]
        tight == [i \in 1..Len(list) |-> SameTypeWithin(list[i], element, TightTol)]
        loose == [i \in 1..Len(list) |-> SameTypeWithin(list[i], element, LooseTol)]
        r1 == Find(list, byId)
        r2 == IF r1 = Null THEN Find(list, tight) ELSE r1
        r3 == IF r2 = Null THEN Find(list, loose) ELSE r2
    IN  r3

\* GET /api/generate-template/:id: originalElement after the three find()
\* calls (the same code, repeated in that handler)
findOriginalTemplate(list, element) ==
    LET byId == [i \in 1..Len(list) |-> list[i].id = element.id]
        tight == [i \in 1..Len(list) |-> SameTypeWithin(list[i], element, TightTol)]
        loose == [i \in 1..Len(list) |-> SameTypeWithin(list[i], element, LooseTol)]
        r1 == Find(list, byId)
        r2 == IF r1 = Null THEN Find(list, tight) ELSE r1
        r3 == IF r2 = Null THEN Find(list, loose) ELSE r2
    IN  r3

InitMatch ==
    /\ mOriginals \in OriginalLists
    /\ mEdited \in EditedElements
    /\ mResult = Null
    /\ mPc = "start"
    /\ IdleExceptMatch

GenerateMatch ==
    /\ mPc = "start"
    /\ mResult' = findOriginalGenerate(mOriginals, mEdited)
    /\ mPc' = "generate"
    /\ UNCHANGED <<mOriginals, mEdited>>
    /\ UNCHANGED exceptMatch

TemplateMatch ==
    /\ mPc = "start"
    /\ mResult' = findOriginalTemplate(mOriginals, mEdited)
    /\ mPc' = "template"
    /\ UNCHANGED <<mOriginals, mEdited>>
    /\ UNCHANGED exceptMatch

NextMatch == GenerateMatch \/ TemplateMatch

SpecMatch == InitMatch /\ [][NextMatch]_vars

(***************************************************************************)
(* C1: in both endpoints the original chosen for an edited element is the  *)
(* first element with the same id if there is one; otherwise the first of  *)
(* the same type within 0.1 inch in x and y; otherwise the first of the    *)
(* same type within 1 inch in x and y; otherwise none.                     *)
(***************************************************************************)
IdxById == {i \in 1..Len(mOriginals) : mOriginals[i].id = mEdited.id}

IdxNear(tol) ==
    {i \in 1..Len(mOriginals) :
        /\ mOriginals[i].type = mEdited.type
        /\ mEdited.x # NaN /\ mEdited.y # NaN
        /\ Abs(mOriginals[i].x - mEdited.x) < tol
        /\ Abs(mOriginals[i].y - mEdited.y) < tol}

ExpectedOriginal ==
    IF IdxById # {} THEN mOriginals[Min(IdxById)]
    ELSE IF IdxNear(TightTol) # {} THEN mOriginals[Min(IdxNear(TightTol))]
    ELSE IF IdxNear(LooseTol) # {} THEN mOriginals[Min(IdxNear(LooseTol))]
    ELSE Null

MatchPrecedence ==
    mPc \in {"generate", "template"} => mResult = ExpectedOriginal

\* an id match that lies further than 1 inch away while another element of
\* the same type sits within 0.1 inch
MatchPrecedenceWitness ==
    /\ mPc \in {"generate", "template"}
    /\ IdxById # {}
    /\ IdxNear(TightTol) # {}
    /\ Min(IdxNear(TightTol)) < Min(IdxById)
    /\ Abs(mResult.x - mEdited.x) >= LooseTol
    /\ mResult.id = mEdited.id

(***************************************************************************)
(* Unit converter.  JavaScript numbers are IEEE-754 doubles: a positive    *)
(* double is [m, k], a mantissa of at most 53 bits (most significant bit   *)
(* first, leading bit 1) and the count k of its bits that lie behind the   *)
(* binary point, so that its value is m / 2^k; m = <<>> is zero.  Division *)
(* and multiplication round to nearest, ties to even, as the hardware does.*)
(* Strings are sequences of characters.                                    *)
(***************************************************************************)
EMU_PER_INCH == 914400

MantissaBits == 53

Digits == <<"0", "1", "2", "3", "4", "5", "6", "7", "8", "9">>

IsDigit(c) == \E d \in 1..10 : Digits[d] = c

DigitVal(c) == (CHOOSE d \in 1..10 : Digits[d] = c) - 1

\* Number.prototype.toString of an integer, NaN included
RECURSIVE NatToStr(_)
NatToStr(n) ==
    IF n < 10 THEN <<Digits[n + 1]>>
    ELSE NatToStr(n \div 10) \o <<Digits[(n % 10) + 1]>>

NumToStr(n) ==
    IF n = NaN THEN <<"N", "a", "N">>
    ELSE IF n < 0 THEN <<"-">> \o NatToStr(-n)
    ELSE NatToStr(n)

\* parseInt(string): the decimal digits that open the string, after an
\* optional sign; NaN when there is none
RECURSIVE DigitPrefix(_, _, _)
DigitPrefix(str, i, acc) ==
    IF i > Len(str) \/ ~IsDigit(str[i]) THEN acc
    ELSE DigitPrefix(str, i + 1, acc * 10 + DigitVal(str[i]))

ParseIntStr(str) ==
    LET neg == Len(str) > 0 /\ str[1] = "-"
        from == IF neg THEN 2 ELSE 1
    IN  IF from > Len(str) \/ ~IsDigit(str[from]) THEN NaN
        ELSE IF neg THEN -DigitPrefix(str, from, 0)
        ELSE DigitPrefix(str, from, 0)

DoubleNaN == [nan |-> TRUE, m |-> <<>>, k |-> 0]

DoubleZero == [nan |-> FALSE, m |-> <<>>, k |-> 0]

RECURSIVE NatToBits(_)
NatToBits(n) ==
    IF n = 0 THEN <<>> ELSE NatToBits(n \div 2) \o <<n % 2>>

RECURSIVE BitsToNat(_)
BitsToNat(bits) ==
    IF bits = <<>> THEN 0
    ELSE 2 * BitsToNat(SubSeq(bits, 1, Len(bits) - 1)) + bits[Len(bits)]

\* bits + 1, one bit longer when every bit was 1
RECURSIVE IncBits(_)
IncBits(bits) ==
    IF bits = <<>> THEN <<1>>
    ELSE IF bits[Len(bits)] = 0 THEN SubSeq(bits, 1, Len(bits) - 1) \o <<1>>
    ELSE IncBits(SubSeq(bits, 1, Len(bits) - 1)) \o <<0>>

\* Round a mantissa of any length to 53 bits, nearest, ties to even.
\* more = TRUE when the exact value has non-zero bits behind those given.
RoundMantissa(bits, k, more) ==
    IF Len(bits) <= MantissaBits THEN [nan |-> FALSE, m |-> bits, k |-> k]
    ELSE
        LET drop == Len(bits) - MantissaBits
            kept == SubSeq(bits, 1, MantissaBits)
            guard == bits[MantissaBits + 1]
            sticky == more \/ \E i \in (MantissaBits + 2)..Len(bits) : bits[i] = 1
            up == guard = 1 /\ (sticky \/ kept[MantissaBits] = 1)
            inc == IncBits(kept)
        IN  IF ~up THEN [nan |-> FALSE, m |-> kept, k |-> k - drop]
            ELSE IF Len(inc) = MantissaBits
                 THEN [nan |-> FALSE, m |-> inc, k |-> k - drop]
                 ELSE [nan |-> FALSE, m |-> SubSeq(inc, 1, MantissaBits),
                       k |-> k - drop - 1]

\* Long division behind the binary point.  st.r is the remainder, st.bits
\* the quotient's significant bits so far, st.k the count of quotient bits
\* behind the point.  Stops with one bit more than the mantissa holds (the
\* guard bit) and rounds.
RECURSIVE DivBits(_, _)
DivBits(st, b) ==
    IF Len(st.bits) > MantissaBits THEN RoundMantissa(st.bits, st.k, st.r # 0)
    ELSE IF st.r = 0 THEN RoundMantissa(st.bits, st.k, FALSE)
    ELSE
        LET r2 == 2 * st.r
            bit == IF r2 >= b THEN 1 ELSE 0
            left == IF r2 >= b THEN r2 - b ELSE r2
        IN  DivBits([r |-> left,
                     bits |-> IF st.bits = <<>> /\ bit = 0 THEN <<>>
                              ELSE st.bits \o <<bit>>,
                     k |-> st.k + 1], b)

\* a / b in double arithmetic, for integers a >= 0 and b > 0
DoubleDiv(a, b) ==
    IF a = NaN THEN DoubleNaN
    ELSE IF a = 0 THEN DoubleZero
    ELSE DivBits([r |-> a % b, bits |-> NatToBits(a \div b), k |-> 0], b)

\* Schoolbook product of a mantissa with the integer c, lowest bit first:
\* st.i is the next bit to multiply, st.carry the carry, st.out the product
\* bits so far
RECURSIVE MulBits(_, _, _)
MulBits(bits, c, st) ==
    IF st.i = 0 THEN NatToBits(st.carry) \o st.out
    ELSE
        LET t == st.carry + bits[st.i] * c
        IN  MulBits(bits, c, [i |-> st.i - 1, carry |-> t \div 2,
                              out |-> <<t % 2>> \o st.out])

\* x * c in double arithmetic, for a double x >= 0 and an integer c > 0
DoubleMulInt(x, c) ==
    IF x.nan THEN DoubleNaN
    ELSE IF x.m = <<>> THEN DoubleZero
    ELSE RoundMantissa(MulBits(x.m, c, [i |-> Len(x.m), carry |-> 0, out |-> <<>>]),
                       x.k, FALSE)

\* the integer part of a double >= 0 (parseInt of a number prints it and
\* reads the digits before the decimal point), NaN for NaN
DoubleTrunc(x) ==
    IF x.nan THEN NaN
    ELSE IF Len(x.m) <= x.k THEN 0
    ELSE BitsToNat(SubSeq(x.m, 1, Len(x.m) - x.k))

\* Math.round of a double >= 0: floor(x + 0.5), NaN for NaN
DoubleRound(x) ==
    IF x.nan THEN NaN
    ELSE IF Len(x.m) < x.k THEN 0
    ELSE IF x.k = 0 THEN BitsToNat(x.m)
    ELSE BitsToNat(SubSeq(x.m, 1, Len(x.m) - x.k)) + x.m[Len(x.m) - x.k + 1]

\* JS values an edited element's x / y / width / height can hold: a number
\* (n thousandths of an inch), undefined (the field is missing) or a
\* string that is no number
ThousandthsPerInch == 1000

JsNum(n) == [kind |-> "num", n |-> n]
JsUndefined == [kind |-> "undefined", n |-> 0]
JsText == [kind |-> "string", n |-> 0]

\* v * 914400: ToNumber(v) is NaN for undefined and for such a string
TimesEmu(v) ==
    IF v.kind = "num"
    THEN DoubleMulInt(DoubleDiv(v.n, ThousandthsPerInch), EMU_PER_INCH)
    ELSE DoubleNaN

\* v || 1
OrOne(v) ==
    IF v.kind = "undefined" \/ (v.kind = "num" /\ v.n = 0)
    THEN JsNum(ThousandthsPerInch)
    ELSE v

\* extractSlideElements: const x = parseInt(off.x) / 914400
toInches(attr) == DoubleDiv(ParseIntStr(attr), EMU_PER_INCH)

\* processImageForPptx: x = parseInt(element.originalElement.x * 914400)
emuOfOriginal(inches) == DoubleTrunc(DoubleMulInt(inches, EMU_PER_INCH))

\* processImageForPptx: x = parseInt(element.x * 914400)
emuOfEdited(v) == DoubleTrunc(TimesEmu(v))

\* insertImageIntoSlide: parseInt(position.x * 914400)
emuOfPosition(v) == DoubleTrunc(TimesEmu(v))

\* insertTableIntoSlide: Math.round((element.x || 1) * 914400)
emuOfTable(v) == DoubleRound(TimesEmu(OrOne(v)))

\* Number.prototype.toString prints a value of 10^21 or more in exponent
\* notation
ExponentFrom == 21

\* a digit string for d * 10^k with k >= 21: one digit that is not 0, then
\* zeros only
IsRoundHuge(attr) ==
    /\ Len(attr) > ExponentFrom
    /\ IsDigit(attr[1]) /\ attr[1] # "0"
    /\ \A i \in 2..Len(attr) : attr[i] = "0"

\* fixPptxImageDimensions: Math.round(parseInt(x)).toString()
fixAttr(attr) ==
    IF IsRoundHuge(attr)
    THEN <<attr[1], "e", "+">> \o NatToStr(Len(attr) - 1)
    ELSE NumToStr(ParseIntStr(attr))

MaxEmu == 130

\* attribute strings found in a source slide: integers, and strings that
\* are no clean integer
SourceAttrs ==
    {NumToStr(e) : e \in 0..MaxEmu}
    \cup {NumToStr(e) : e \in {914400, 2743200, 9144000}}
    \cup {<<"a", "b", "c">>, <<"1", "2", ".", "5">>, <<"1", "e", "3">>}

EditedValues ==
    {JsNum(n) : n \in {0, 1, 2, 500, 1000, 1234, 10000}}
    \cup {JsUndefined, JsText}

InitEmu ==
    /\ uAttr \in SourceAttrs
    /\ uEdit \in EditedValues
    /\ uInches = DoubleNaN
    /\ uOut = <<>>
    /\ uPc = "start"
    /\ IdleExceptEmu

\* extractor: the attribute becomes the element's position in inches
ExtractInches ==
    /\ uPc = "start"
    /\ uInches' = toInches(uAttr)
    /\ uPc' = "extracted"
    /\ UNCHANGED <<uAttr, uEdit, uOut>>
    /\ UNCHANGED exceptEmu

\* image patcher, originalElement given: its inches go back to the XML
PatchFromOriginal ==
    /\ uPc = "extracted"
    /\ uOut' = NumToStr(emuOfOriginal(uInches))
    /\ uPc' = "patchedOriginal"
    /\ UNCHANGED <<uAttr, uEdit, uInches>>
    /\ UNCHANGED exceptEmu

\* image patcher, no originalElement: the edited element's value
PatchFromEdited ==
    /\ uPc = "start"
    /\ uOut' = NumToStr(emuOfEdited(uEdit))
    /\ uPc' = "patchedEdited"
    /\ UNCHANGED <<uAttr, uEdit, uInches>>
    /\ UNCHANGED exceptEmu

\* insertImageIntoSlide called with a position in inches
InsertImageAt ==
    /\ uPc = "start"
    /\ uOut' = NumToStr(emuOfPosition(uEdit))
    /\ uPc' = "insertedImage"
    /\ UNCHANGED <<uAttr, uEdit, uInches>>
    /\ UNCHANGED exceptEmu

\* insertTableIntoSlide
InsertTableAt ==
    /\ uPc = "start"
    /\ uOut' = NumToStr(emuOfTable(uEdit))
    /\ uPc' = "insertedTable"
    /\ UNCHANGED <<uAttr, uEdit, uInches>>
    /\ UNCHANGED exceptEmu

\* fixPptxImageDimensions on one attribute of a picture
NormalizeAttr ==
    /\ uPc = "start"
    /\ uOut' = fixAttr(uAttr)
    /\ uPc' = "normalized"
    /\ UNCHANGED <<uAttr, uEdit, uInches>>
    /\ UNCHANGED exceptEmu

NextEmu ==
    \/ ExtractInches
    \/ PatchFromOriginal
    \/ PatchFromEdited
    \/ InsertImageAt
    \/ InsertTableAt
    \/ NormalizeAttr

SpecEmu == InitEmu /\ [][NextEmu]_vars

\* the integer nearest to n thousandths of an inch in EMU (914.4 EMU each;
\* no n lands on a half)
NearestEmu(n) == (2 * n * 4572 + 5) \div 10

IsCleanInt(attr) == ParseIntStr(attr) # NaN /\ NumToStr(ParseIntStr(attr)) = attr

(***************************************************************************)
(* C7: every conversion of an inch value to EMU that is written into the   *)
(* slide XML (image patcher from the original and from the edited element, *)
(* picture insertion, table insertion) gives the integer nearest to        *)
(* inches * 914400.                                                        *)
(***************************************************************************)
\* (a table at x = 0 is left out: insertTableIntoSlide reads 0 as "not
\* given" and substitutes its default of 1 inch)
RoundsToNearest ==
    /\ (uPc \in {"patchedEdited", "insertedImage"} /\ uEdit.kind = "num")
          => uOut = NumToStr(NearestEmu(uEdit.n))
    /\ (uPc = "insertedTable" /\ uEdit.kind = "num" /\ uEdit.n # 0)
          => uOut = NumToStr(NearestEmu(uEdit.n))
    /\ (uPc = "patchedOriginal" /\ IsCleanInt(uAttr)) => uOut = uAttr

(***************************************************************************)
(* C8: an integer EMU value that the extractor turned into inches comes    *)
(* back from the image patcher as the same integer.                        *)
(***************************************************************************)
EmuRoundTrip ==
    (uPc = "patchedOriginal" /\ IsCleanInt(uAttr)) => ParseIntStr(uOut) = ParseIntStr(uAttr)

(***************************************************************************)
(* C9: whatever the input, the image patcher, the table injector and the   *)
(* normalizer write an integer, never the text NaN.                        *)
(***************************************************************************)
NeverWritesNaN ==
    uPc \in {"patchedOriginal", "patchedEdited", "insertedImage", "insertedTable",
             "normalized"}
        => (uOut # <<"N", "a", "N">> /\ IsCleanInt(uOut))

(***************************************************************************)
(* Slide XML.  A serialized slide is a sequence of tokens, each a string:  *)
(* a markup token (a tag, or the piece of a tag up to an attribute value)  *)
(* or one character of text or of an attribute value.  The parsed form     *)
(* (xml2js) is a sequence of shape-tree children, each a record            *)
(*   tag    "p:sp" | "p:pic" | "p:graphicFrame" | "p:cxnSp"                *)
(*   embed  the r:embed of the node's a:blip (<<>>: no blip)               *)
(*   xfrm   <<x, y, cx, cy>>, the a:off / a:ext attribute strings          *)
(*          (<<>>: no transform)                                           *)
(*   paras  the text body: per a:p the bodies of its a:t runs              *)
(***************************************************************************)
NodeTags == {"p:sp", "p:pic", "p:graphicFrame", "p:cxnSp"}

OpenTag(tag) ==
    CASE tag = "p:sp" -> "<p:sp>"
      [] tag = "p:pic" -> "<p:pic>"
      [] tag = "p:graphicFrame" -> "<p:graphicFrame>"
      [] tag = "p:cxnSp" -> "<p:cxnSp>"

CloseTag(tag) ==
    CASE tag = "p:sp" -> "</p:sp>"
      [] tag = "p:pic" -> "</p:pic>"
      [] tag = "p:graphicFrame" -> "</p:graphicFrame>"
      [] tag = "p:cxnSp" -> "</p:cxnSp>"

MarkupTokens ==
    {"<?xml?>", "<p:sld>", "</p:sld>", "<p:spTree>", "</p:spTree>",
     "<a:blip r:embed=", "<a:off x=", " y=", "<a:ext cx=", " cy=", "/>",
     "<a:p>", "</a:p>", "<a:t>", "</a:t>", "~"}
    \cup {OpenTag(t) : t \in NodeTags} \cup {CloseTag(t) : t \in NodeTags}

IsChar(tok) == tok \notin MarkupTokens

\* the concatenation of a sequence of sequences
RECURSIVE Flatten(_)
Flatten(ss) ==
    IF Len(ss) = 0 THEN <<>>
    ELSE IF Len(ss) = 1 THEN ss[1]
    ELSE LET h == Len(ss) \div 2
         IN  Flatten(SubSeq(ss, 1, h)) \o Flatten(SubSeq(ss, h + 1, Len(ss)))

\* the first index >= from at which tok stands, 0 when there is none
IndexOf(toks, tok, from) ==
    IF \E j \in from..Len(toks) : toks[j] = tok
    THEN CHOOSE j \in from..Len(toks) :
            toks[j] = tok /\ \A k \in from..(j - 1) : toks[k] # tok
    ELSE 0

SerRun(body) == <<"<a:t>">> \o body \o <<"</a:t>">>

SerPara(runs) ==
    <<"<a:p>">> \o Flatten([i \in 1..Len(runs) |-> SerRun(runs[i])]) \o <<"</a:p>">>

SerNode(n) ==
    <<OpenTag(n.tag)>>
    \o (IF n.embed = <<>> THEN <<>> ELSE <<"<a:blip r:embed=">> \o n.embed \o <<"/>">>)
    \o (IF n.xfrm = <<>> THEN <<>>
        ELSE <<"<a:off x=">> \o n.xfrm[1] \o <<" y=">> \o n.xfrm[2] \o <<"/>">>
             \o <<"<a:ext cx=">> \o n.xfrm[3] \o <<" cy=">> \o n.xfrm[4] \o <<"/>">>)
    \o Flatten([i \in 1..Len(n.paras) |-> SerPara(n.paras[i])])
    \o <<CloseTag(n.tag)>>

\* the slide as the presentation program wrote it: no whitespace between
\* the elements, children in drawing order
SourceXml(nodes) ==
    <<"<?xml?>", "<p:sld>", "<p:spTree>">>
    \o Flatten([i \in 1..Len(nodes) |-> SerNode(nodes[i])])
    \o <<"</p:spTree>", "</p:sld>">>

\* text escaping of xml2js.Builder: & < > only
BuilderEscape(str) ==
    Flatten([i \in 1..Len(str) |->
        CASE str[i] = "&" -> <<"&", "a", "m", "p", ";">>
          [] str[i] = "<" -> <<"&", "l", "t", ";">>
          [] str[i] = ">" -> <<"&", "g", "t", ";">>
          [] OTHER -> <<str[i]>>])

\* xml2js.Parser keeps one array per child name, in the order the names
\* first occur: the children of the shape tree come out grouped by tag
RECURSIVE TagOrder(_)
TagOrder(nodes) ==
    IF nodes = <<>> THEN <<>>
    ELSE LET rest == TagOrder(SubSeq(nodes, 1, Len(nodes) - 1))
             t == nodes[Len(nodes)].tag
         IN  IF \E i \in 1..Len(rest) : rest[i] = t THEN rest ELSE Append(rest, t)

GroupByTag(nodes) ==
    LET order == TagOrder(nodes)
    IN  Flatten([k \in 1..Len(order) |->
                    SelectSeq(nodes, LAMBDA n : n.tag = order[k])])

\* xml2js.Builder.buildObject: declaration, one element per line (the token
\* "~" is the line break and indentation), children grouped by tag, text
\* escaped
BuildXml(nodes) ==
    LET g == GroupByTag(nodes)
        esc(n) == [n EXCEPT !.paras =
                      [i \in 1..Len(n.paras) |->
                          [j \in 1..Len(n.paras[i]) |-> BuilderEscape(n.paras[i][j])]]]
    IN  <<"<?xml?>", "~", "<p:sld>", "~", "<p:spTree>">>
        \o Flatten([i \in 1..Len(g) |-> <<"~">> \o SerNode(esc(g[i]))])
        \o <<"~", "</p:spTree>", "~", "</p:sld>">>

\* the five predefined entities, as the parser reads and xmlEscape writes them
Entities ==
    << [ch |-> "&", name |-> <<"&", "a", "m", "p", ";">>],
       [ch |-> "<", name |-> <<"&", "l", "t", ";">>],
       [ch |-> ">", name |-> <<"&", "g", "t", ";">>],
       [ch |-> "\"", name |-> <<"&", "q", "u", "o", "t", ";">>],
       [ch |-> "'", name |-> <<"&", "a", "p", "o", "s", ";">>] >>

StartsWith(str, i, pre) ==
    i + Len(pre) - 1 <= Len(str) /\ SubSeq(str, i, i + Len(pre) - 1) = pre

\* the index in Entities of the entity that starts at str[i], 0 if none
EntityAt(str, i) ==
    IF \E e \in 1..Len(Entities) : StartsWith(str, i, Entities[e].name)
    THEN CHOOSE e \in 1..Len(Entities) : StartsWith(str, i, Entities[e].name)
    ELSE 0

\* character data the parser accepts: no markup, no bare < and no & that
\* does not start an entity
RECURSIVE WellFormedText(_, _)
WellFormedText(str, i) ==
    IF i > Len(str) THEN TRUE
    ELSE IF ~IsChar(str[i]) \/ str[i] = "<" THEN FALSE
    ELSE IF str[i] = "&"
         THEN EntityAt(str, i) # 0
              /\ WellFormedText(str, i + Len(Entities[EntityAt(str, i)].name))
         ELSE WellFormedText(str, i + 1)

\* the text the parser hands out for well-formed character data
RECURSIVE ParsedText(_, _)
ParsedText(str, i) ==
    IF i > Len(str) THEN <<>>
    ELSE IF str[i] = "&" /\ EntityAt(str, i) # 0
         THEN <<Entities[EntityAt(str, i)].ch>>
              \o ParsedText(str, i + Len(Entities[EntityAt(str, i)].name))
         ELSE <<str[i]>> \o ParsedText(str, i + 1)

ParseFail == [ok |-> FALSE, val |-> <<>>, next |-> 0]

\* opener value closer, starting at toks[p]
TakeValue(toks, p, opener, closer) ==
    IF p > Len(toks) \/ toks[p] # opener THEN ParseFail
    ELSE The({IF q = 0 \/ ~WellFormedText(SubSeq(toks, p + 1, q - 1), 1) THEN ParseFail
              ELSE [ok |-> TRUE, val |-> ParsedText(SubSeq(toks, p + 1, q - 1), 1),
                    next |-> q + 1]
                : q \in {IndexOf(toks, closer, p + 1)}})

\* the a:t runs of one a:p, from toks[p] up to </a:p>
RECURSIVE ParseRuns(_, _, _)
ParseRuns(toks, p, acc) ==
    IF p > Len(toks) THEN ParseFail
    ELSE IF toks[p] = "</a:p>" THEN [ok |-> TRUE, val |-> acc, next |-> p + 1]
    ELSE The({IF ~r.ok THEN ParseFail ELSE ParseRuns(toks, r.next, Append(acc, r.val))
                : r \in {TakeValue(toks, p, "<a:t>", "</a:t>")}})

\* the a:p paragraphs from toks[p] to the end of the node
RECURSIVE ParseParas(_, _, _)
ParseParas(toks, p, acc) ==
    IF p > Len(toks) THEN [ok |-> TRUE, val |-> acc, next |-> p]
    ELSE IF toks[p] # "<a:p>" THEN ParseFail
    ELSE The({IF ~r.ok THEN ParseFail ELSE ParseParas(toks, r.next, Append(acc, r.val))
                : r \in {ParseRuns(toks, p + 1, <<>>)}})

\* the attributes of a:off and a:ext, each between its opening and closing
\* mark; the closing mark of x and of cx opens the next attribute
XfrmAttrs ==
    << <<"<a:off x=", " y=">>, <<" y=", "/>">>,
       <<"<a:ext cx=", " cy=">>, <<" cy=", "/>">> >>

\* the attributes XfrmAttrs[k..4], starting at toks[p]
RECURSIVE TakeAttrs(_, _, _, _)
TakeAttrs(toks, p, k, acc) ==
    IF k > Len(XfrmAttrs) THEN [ok |-> TRUE, val |-> acc, next |-> p]
    ELSE The({IF ~r.ok THEN ParseFail
              ELSE TakeAttrs(toks, IF k % 2 = 1 THEN r.next - 1 ELSE r.next,
                             k + 1, Append(acc, r.val))
                : r \in {TakeValue(toks, p, XfrmAttrs[k][1], XfrmAttrs[k][2])}})

NoNode == [tag |-> "none", embed |-> <<>>, xfrm |-> <<>>, paras |-> <<>>]

\* one shape-tree child from the tokens between its tags: an optional
\* a:blip, an optional transform, the paragraphs
ParseNode(tag, toks) ==
    The({The({The({[ok |-> ps.ok,
                    val |-> [tag |-> tag,
                             embed |-> IF blip.ok THEN blip.val ELSE <<>>,
                             xfrm |-> IF xf.ok THEN xf.val ELSE <<>>,
                             paras |-> ps.val]]
                     : ps \in {ParseParas(toks,
                                          IF xf.ok THEN xf.next
                                          ELSE IF blip.ok THEN blip.next ELSE 1,
                                          <<>>)}})
               : xf \in {TakeAttrs(toks, IF blip.ok THEN blip.next ELSE 1, 1, <<>>)}})
           : blip \in {TakeValue(toks, 1, "<a:blip r:embed=", "/>")}})

TagOfOpen(tok) ==
    IF \E t \in NodeTags : OpenTag(t) = tok
    THEN CHOOSE t \in NodeTags : OpenTag(t) = tok
    ELSE "none"

\* the children of the shape tree, from toks[p] to the end
RECURSIVE ParseNodes(_, _, _)
ParseNodes(toks, p, acc) ==
    IF p > Len(toks) THEN [ok |-> TRUE, nodes |-> acc]
    ELSE The({IF q = 0 THEN [ok |-> FALSE, nodes |-> <<>>]
              ELSE The({IF ~n.ok THEN [ok |-> FALSE, nodes |-> <<>>]
                        ELSE ParseNodes(toks, q + 1, Append(acc, n.val))
                          : n \in {ParseNode(TagOfOpen(toks[p]), inner)
                                      : inner \in {SubSeq(toks, p + 1, q - 1)}}})
                : q \in {IF TagOfOpen(toks[p]) = "none" THEN 0
                         ELSE IndexOf(toks, CloseTag(TagOfOpen(toks[p])), p + 1)}})

\* xml2js parseString / parseStringPromise of a slide: ok = FALSE is the
\* parse error; whitespace between elements is dropped
ParseXml(xml) ==
    The({IF Len(toks) < 5
            \/ SubSeq(toks, 1, 3) # <<"<?xml?>", "<p:sld>", "<p:spTree>">>
            \/ SubSeq(toks, Len(toks) - 1, Len(toks)) # <<"</p:spTree>", "</p:sld>">>
         THEN [ok |-> FALSE, nodes |-> <<>>]
         ELSE The({ParseNodes(body, 1, <<>>) : body \in {SubSeq(toks, 4, Len(toks) - 2)}})
           : toks \in {SelectSeq(xml, LAMBDA t : t # "~")}})

(***************************************************************************)
(* Text patcher: replaceTextInXml                                          *)
(***************************************************************************)
\* xmlEscape: & first, then < > " '
xmlEscape(str) ==
    Flatten([i \in 1..Len(str) |->
        IF \E e \in 1..Len(Entities) : Entities[e].ch = str[i]
        THEN Entities[CHOOSE e \in 1..Len(Entities) : Entities[e].ch = str[i]].name
        ELSE <<str[i]>>])

\* String.prototype.replace reads a replacement string for patterns:
\* $$ is a dollar sign, $& the match, $` and $' the text before and after
\* the match, $n / $nn the n-th group (two digits only when they name a
\* group); any other $ stands for itself.
\* m = [match, groups, before, after]
RECURSIVE Substitute(_, _, _)
Substitute(repl, i, m) ==
    IF i > Len(repl) THEN <<>>
    ELSE IF repl[i] # "$" \/ i = Len(repl)
         THEN <<repl[i]>> \o Substitute(repl, i + 1, m)
    ELSE LET c == repl[i + 1]
             two == IF IsDigit(c) /\ i + 2 <= Len(repl) /\ IsDigit(repl[i + 2])
                    THEN 10 * DigitVal(c) + DigitVal(repl[i + 2])
                    ELSE 0
         IN  IF c = "$" THEN <<"$">> \o Substitute(repl, i + 2, m)
             ELSE IF c = "&" THEN m.match \o Substitute(repl, i + 2, m)
             ELSE IF c = "`" THEN m.before \o Substitute(repl, i + 2, m)
             ELSE IF c = "'" THEN m.after \o Substitute(repl, i + 2, m)
             ELSE IF two >= 1 /\ two <= Len(m.groups)
                  THEN m.groups[two] \o Substitute(repl, i + 3, m)
             ELSE IF IsDigit(c) /\ DigitVal(c) >= 1 /\ DigitVal(c) <= Len(m.groups)
                  THEN m.groups[DigitVal(c)] \o Substitute(repl, i + 2, m)
             ELSE <<"$">> \o Substitute(repl, i + 1, m)

\* the regular expression (<a:t[^>]*>)text(</a:t>) matches at xml[i]
RunMatchesAt(xml, i, text) ==
    /\ xml[i] = "<a:t>"
    /\ i + Len(text) + 1 <= Len(xml)
    /\ SubSeq(xml, i + 1, i + Len(text)) = text
    /\ xml[i + Len(text) + 1] = "</a:t>"

\* the first index >= from at which the regular expression matches, 0 when
\* there is none
NextRunMatch(xml, from, text) ==
    IF \E j \in from..Len(xml) : RunMatchesAt(xml, j, text)
    THEN CHOOSE j \in from..Len(xml) :
            RunMatchesAt(xml, j, text)
            /\ \A k \in from..(j - 1) : ~RunMatchesAt(xml, k, text)
    ELSE 0

\* xml.replace(new RegExp(`(<a:t[^>]*>)${text}(</a:t>)`, 'g'), `$1${by}$2`)
\* with the regular-expression characters of text escaped: every match,
\* left to right, from xml[i] on
RECURSIVE ReplaceRuns(_, _, _, _)
ReplaceRuns(xml, i, text, by) ==
    The({IF p = 0 THEN SubSeq(xml, i, Len(xml))
         ELSE SubSeq(xml, i, p - 1)
              \o Substitute(<<"$", "1">> \o by \o <<"$", "2">>, 1,
                            [match |-> SubSeq(xml, p, p + Len(text) + 1),
                             groups |-> << <<"<a:t>">>, <<"</a:t>">> >>,
                             before |-> SubSeq(xml, 1, p - 1),
                             after |-> SubSeq(xml, p + Len(text) + 2, Len(xml))])
              \o ReplaceRuns(xml, p + Len(text) + 2, text, by)
           : p \in {NextRunMatch(xml, i, text)}})

\* String.prototype.split('\n')
RECURSIVE SplitLines(_)
SplitLines(text) ==
    LET nl == IndexOf(text, "\n", 1)
    IN  IF nl = 0 THEN <<text>>
        ELSE <<SubSeq(text, 1, nl - 1)>> \o SplitLines(SubSeq(text, nl + 1, Len(text)))

\* tier 1: the old text as it stands
DirectTier(xml, oldText, newText) == ReplaceRuns(xml, 1, oldText, newText)

\* tier 2: the old text with its entities escaped
EscapedTier(xml, oldText, newText) ==
    The({ReplaceRuns(xml, 1, old, new)
           : old \in {xmlEscape(oldText)}, new \in {xmlEscape(newText)}})

\* tier 3: line by line, for a multi-line old text
RECURSIVE LineTier(_, _, _, _)
LineTier(xml, oldLines, newLines, i) ==
    IF i > Len(oldLines) \/ i > Len(newLines) THEN xml
    ELSE IF oldLines[i] # <<>> /\ newLines[i] # <<>> /\ oldLines[i] # newLines[i]
         THEN The({LineTier(r, oldLines, newLines, i + 1)
                     : r \in {ReplaceRuns(xml, 1, oldLines[i], newLines[i])}})
         ELSE LineTier(xml, oldLines, newLines, i + 1)

\* tier 4, findAndReplaceText: every a:t value equal to the old text or to
\* its escaped form becomes the new text
PatchNodes(nodes, oldText, newText) ==
    [n \in 1..Len(nodes) |->
        [nodes[n] EXCEPT !.paras =
            [i \in 1..Len(nodes[n].paras) |->
                [j \in 1..Len(nodes[n].paras[i]) |->
                    IF nodes[n].paras[i][j] = oldText
                       \/ nodes[n].paras[i][j] = xmlEscape(oldText)
                    THEN newText
                    ELSE nodes[n].paras[i][j]]]]]

\* a tree walk that rebuilds the document whether or not it replaced a text
TreeTier_rebuilds(xml, oldText, newText) ==
    The({IF ~doc.ok THEN xml ELSE BuildXml(PatchNodes(doc.nodes, oldText, newText))
           : doc \in {ParseXml(xml)}})

\* tier 4: parse, patch the tree, rebuild the whole document
TreeTier(xml, oldText, newText) ==
    The({IF ~doc.ok THEN xml
         ELSE The({IF patched = doc.nodes THEN xml ELSE BuildXml(patched)
                     : patched \in {PatchNodes(doc.nodes, oldText, newText)}})
           : doc \in {ParseXml(xml)}})

\* the four tiers: the first two always, the third when they left the slide
\* as it was and the old text has a line break, the fourth when the slide
\* is still as it was
AllTiers(slideXml, oldText, newText) ==
    The({The({IF r3 = slideXml THEN TreeTier(slideXml, oldText, newText) ELSE r3
                : r3 \in {IF r2 = slideXml /\ IndexOf(oldText, "\n", 1) # 0
                          THEN LineTier(r2, lo, ln, 1)
                          ELSE r2 : lo \in {SplitLines(oldText)},
                                    ln \in {SplitLines(newText)}}})
           : r2 \in {EscapedTier(r1, oldText, newText)
                       : r1 \in {DirectTier(slideXml, oldText, newText)}}})

\* a patcher without the guard on empty and equal texts
replaceTextInXml_noGuard(slideXml, oldText, newText) ==
    AllTiers(slideXml, oldText, newText)

replaceTextInXml(slideXml, oldText, newText) ==
    IF oldText = <<>> \/ newText = <<>> \/ oldText = newText THEN slideXml
    ELSE AllTiers(slideXml, oldText, newText)

\* the slides and texts the patcher is called with
MaxShapes == 3

\* a:off 9, 9 and a:ext 27, 9
ShapeXfrm == << <<"9">>, <<"9">>, <<"2", "7">>, <<"9">> >>

TextShape(paras) ==
    [tag |-> "p:sp", embed |-> <<>>, xfrm |-> ShapeXfrm, paras |-> paras]

Picture(rid) ==
    [tag |-> "p:pic", embed |-> rid, xfrm |-> ShapeXfrm, paras |-> <<>>]

\* run bodies as they stand in the file: a quotation mark is written raw,
\* an ampersand as &amp;
TextNodes ==
    {TextShape(<< <<(<<"a">>)>> >>),
     TextShape(<< <<(<<"\"">>)>> >>),
     TextShape(<< <<(<<"&", "a", "m", "p", ";", "\"">>)>> >>),
     TextShape(<< <<(<<"a">>)>>, <<(<<"b">>)>> >>),
     TextShape(<< <<(<<"a">>), <<"b">> >> >>),
     Picture(<<"r", "I", "d", "2">>)}

TextSlides == UNION {[1..k -> TextNodes] : k \in 1..MaxShapes}

PatchTexts ==
    {<<>>, <<"a">>, <<"b">>, <<"a", "b">>, <<"\"">>, <<"&", "\"">>,
     <<"&", "q", "u", "o", "t", ";">>,
     <<"$", "1", "0", "0">>, <<"5", "$">>,
     <<"a", "\n", "b">>, <<"b", "\n", "c">>}

InitText ==
    /\ tXml \in {SourceXml(nodes) : nodes \in TextSlides}
    /\ tOld \in PatchTexts
    /\ tNew \in PatchTexts
    /\ tOut = <<>>
    /\ tPc = "start"
    /\ IdleExceptText

\* slideXml = replaceTextInXml(slideXml, originalElement.content, element.content)
ReplaceText ==
    /\ tPc = "start"
    /\ tOut' = replaceTextInXml(tXml, tOld, tNew)
    /\ tPc' = "done"
    /\ UNCHANGED <<tXml, tOld, tNew>>
    /\ UNCHANGED exceptText

NextText == ReplaceText

SpecText == InitText /\ [][NextText]_vars

\* the bodies of the text runs of a serialized slide, in document order:
\* what stands between each <a:t> and the next </a:t>
RECURSIVE RunBodiesOf(_, _)
RunBodiesOf(xml, i) ==
    The({IF p = 0 THEN <<>>
         ELSE The({IF q = 0 THEN <<SubSeq(xml, p + 1, Len(xml))>>
                   ELSE <<SubSeq(xml, p + 1, q - 1)>> \o RunBodiesOf(xml, q + 1)
                     : q \in {IndexOf(xml, "</a:t>", p + 1)}})
           : p \in {IndexOf(xml, "<a:t>", i)}})

\* everything outside the run bodies
RECURSIVE OutsideRuns(_, _)
OutsideRuns(xml, i) ==
    The({IF p = 0 THEN SubSeq(xml, i, Len(xml))
         ELSE The({IF q = 0 THEN SubSeq(xml, i, p)
                   ELSE SubSeq(xml, i, p) \o <<"</a:t>">> \o OutsideRuns(xml, q + 1)
                     : q \in {IndexOf(xml, "</a:t>", p + 1)}})
           : p \in {IndexOf(xml, "<a:t>", i)}})

\* the markup of a serialized slide, line breaks and indentation left out
MarkupOf(xml) == SelectSeq(OutsideRuns(xml, 1), LAMBDA t : t # "~")

HoldsOld(body) == body = tOld \/ body = xmlEscape(tOld)

\* C2: when old and new text are non-empty and differ and some run holds
\* the old text, literally or escaped, then after the call every run that
\* held it holds the new text (literal for a literal match, escaped for an
\* escaped one) and no run holds the old text.
TextReplaced ==
    (/\ tPc = "done"
     /\ tOld # <<>> /\ tNew # <<>> /\ tOld # tNew
     /\ \E k \in 1..Len(RunBodiesOf(tXml, 1)) : HoldsOld(RunBodiesOf(tXml, 1)[k]))
    => LET before == RunBodiesOf(tXml, 1)
           after == RunBodiesOf(tOut, 1)
       IN  /\ Len(after) = Len(before)
           /\ \A k \in 1..Len(before) :
                /\ before[k] = tOld => after[k] = tNew
                /\ (before[k] # tOld /\ before[k] = xmlEscape(tOld))
                      => after[k] = xmlEscape(tNew)
                /\ after[k] # tOld

\* C3: with equal texts, or with an empty old or new text, the call
\* returns its input.
NoOpOnEqualOrEmpty ==
    (tPc = "done" /\ (tOld = <<>> \/ tNew = <<>> \/ tOld = tNew)) => tOut = tXml

NoOpOnEqualOrEmptyWitness ==
    /\ tPc = "done"
    /\ tOld = tNew
    /\ \E k \in 1..Len(RunBodiesOf(tXml, 1)) : RunBodiesOf(tXml, 1)[k] = tOld
    /\ tOut = tXml

\* a run the call is meant to rewrite: it holds the old text, raw or as the
\* parser reads it, literally or escaped, or one line of a multi-line old text
IsTarget(body) ==
    \/ HoldsOld(body)
    \/ (WellFormedText(body, 1) /\ HoldsOld(ParsedText(body, 1)))
    \/ \E l \in 1..Len(SplitLines(tOld)) : body = SplitLines(tOld)[l]

\* C4: a call that changes the slide leaves the markup as it was (every
\* tag and attribute, in the same order) and leaves every run alone that
\* did not hold the old text.
StructurePreserved ==
    (tPc = "done" /\ tOut # tXml)
    => LET before == RunBodiesOf(tXml, 1)
           after == RunBodiesOf(tOut, 1)
       IN  /\ MarkupOf(tOut) = MarkupOf(tXml)
           /\ Len(after) = Len(before)
           /\ \A k \in 1..Len(before) : ~IsTarget(before[k]) => after[k] = before[k]

\* C23: the tiers literal match, escaped match, per-line match and tree
\* walk are attempted in that order and a tier modifies the XML only if
\* every earlier tier left it unchanged: what the call returns is what the
\* first tier that changes the slide makes of the slide.
TiersInOrder ==
    (tPc = "done" /\ tOld # <<>> /\ tNew # <<>> /\ tOld # tNew)
    => LET t1 == DirectTier(tXml, tOld, tNew)
           t2 == EscapedTier(tXml, tOld, tNew)
           t3 == IF IndexOf(tOld, "\n", 1) # 0
                 THEN LineTier(tXml, SplitLines(tOld), SplitLines(tNew), 1)
                 ELSE tXml
           t4 == TreeTier(tXml, tOld, tNew)
       IN  tOut = IF t1 # tXml THEN t1
                  ELSE IF t2 # tXml THEN t2
                  ELSE IF t3 # tXml THEN t3
                  ELSE t4

\* C30: when no run holds the old text, literally or escaped, and no run
\* holds one line of a multi-line old text, the call returns the slide as
\* it is: a text that was put together from several runs of a paragraph
\* cannot be patched, and the call does not fail.
MultiRunNotPatchable ==
    (/\ tPc = "done"
     /\ \A k \in 1..Len(RunBodiesOf(tXml, 1)) : ~IsTarget(RunBodiesOf(tXml, 1)[k]))
    => tOut = tXml

\* an edit of the text of a paragraph of two runs
MultiRunNotPatchableWitness ==
    /\ tPc = "done"
    /\ tOld = <<"a", "b">>
    /\ tNew = <<"b">>
    /\ tXml = SourceXml(<<TextShape(<< <<(<<"a">>), <<"b">> >> >>)>>)
    /\ tOut = tXml

(***************************************************************************)
(* Dimension normalizer: fixPptxImageDimensions                            *)
(***************************************************************************)
\* the pictures that have a transform get Math.round(parseInt(v)).toString()
\* for x, y, cx and cy
FixPics(nodes) ==
    [n \in 1..Len(nodes) |->
        IF nodes[n].tag = "p:pic" /\ nodes[n].xfrm # <<>>
        THEN [nodes[n] EXCEPT !.xfrm = [k \in 1..4 |-> fixAttr(nodes[n].xfrm[k])]]
        ELSE nodes[n]]

\* a slide that has pictures is rebuilt from its parse, any other slide is
\* left as it is
FixSlide(slideXml) ==
    The({IF \E n \in 1..Len(doc.nodes) : doc.nodes[n].tag = "p:pic"
         THEN BuildXml(FixPics(doc.nodes))
         ELSE slideXml
           : doc \in {ParseXml(slideXml)}})

\* the slides written to outputPath; a slide that does not parse throws,
\* the function returns false and writes nothing
fixPptxImageDimensions(slides) ==
    IF \E i \in 1..Len(slides) : ~ParseXml(slides[i]).ok
    THEN [ok |-> FALSE, slides |-> <<>>]
    ELSE [ok |-> TRUE, slides |-> [i \in 1..Len(slides) |-> FixSlide(slides[i])]]

\* archives given to the normalizer
MaxFixSlides == 2

MaxFixShapes == 2

\* the digits of 10^21
Sextillion == <<"1">> \o [i \in 1..ExponentFrom |-> "0"]

\* attribute values of the transforms: integers, NaN as the image patcher
\* writes it, a fraction, a negative number, a number of 22 digits
FixAttrs ==
    {<<"9", "1", "4">>, <<"N", "a", "N">>, <<"1", "2", ".", "7">>, <<"-", "5">>, Sextillion}

FixNodes ==
    {[tag |-> "p:pic", embed |-> <<"r", "I", "d", "2">>,
      xfrm |-> <<a, <<"0">>, <<"9">>, <<"9">> >>, paras |-> <<>>] : a \in FixAttrs}
    \cup {[tag |-> t, embed |-> <<>>,
           xfrm |-> <<a, <<"0">>, <<"9">>, <<"9">> >>, paras |-> <<>>]
            : t \in {"p:sp", "p:graphicFrame"}, a \in {<<"9", "1", "4">>, <<"1", "2", ".", "7">>}}
    \cup {[tag |-> "p:pic", embed |-> <<"r", "I", "d", "2">>, xfrm |-> <<>>, paras |-> <<>>],
          [tag |-> "p:sp", embed |-> <<>>, xfrm |-> <<>>, paras |-> << <<(<<"a">>)>> >>]}

\* a slide cut off in the middle of its shape tree
BrokenSlide == <<"<?xml?>", "<p:sld>", "<p:spTree>", "<p:sp>">>

FixSlides ==
    {SourceXml(nodes) : nodes \in UNION {[1..k -> FixNodes] : k \in 1..MaxFixShapes}}
    \cup {BrokenSlide}

InitFix ==
    /\ fIn \in UNION {[1..k -> FixSlides] : k \in 1..MaxFixSlides}
    /\ fOut = <<>>
    /\ fPc = "start"
    /\ fAgain = <<>>
    /\ IdleExceptFix

\* await fixPptxImageDimensions(tempPath, outputPath)
FixDimensions ==
    /\ fPc = "start"
    /\ \E r \in {fixPptxImageDimensions(fIn)} :
          /\ fOut' = r.slides
          /\ fPc' = IF r.ok THEN "fixed" ELSE "failed"
    /\ UNCHANGED <<fIn, fAgain>>
    /\ UNCHANGED exceptFix

\* fixPptxImageDimensions(outputPath, ...): the normalizer on its own output
FixAgain ==
    /\ fPc = "fixed"
    /\ \E r \in {fixPptxImageDimensions(fOut)} :
          /\ fAgain' = r.slides
          /\ fPc' = IF r.ok THEN "again" ELSE "failed"
    /\ UNCHANGED <<fIn, fOut>>
    /\ UNCHANGED exceptFix

NextFix ==
    \/ FixDimensions
    \/ FixAgain

SpecFix == InitFix /\ [][NextFix]_vars

\* the transforms of a serialized slide, of whatever element
XfrmsOf(slideXml) ==
    The({SelectSeq([n \in 1..Len(doc.nodes) |-> doc.nodes[n].xfrm],
                   LAMBDA x : x # <<>>)
           : doc \in {ParseXml(slideXml)}})

\* C6: after the normalizer has run, x, y, cx and cy of every transform of
\* every slide (pictures, shapes, connectors, graphic frames) are base-10
\* integer strings.
TransformsAreIntegers ==
    fPc = "fixed"
    => \A i \in 1..Len(fOut) :
          \A n \in 1..Len(XfrmsOf(fOut[i])) :
             \A k \in 1..4 : IsCleanInt(XfrmsOf(fOut[i])[n][k])

\* C16: the normalizer run on its own output leaves every offset and
\* extent attribute of every slide at the value it had after the first run.
NormalizationIdempotent ==
    fPc = "again"
    => /\ Len(fAgain) = Len(fOut)
       /\ \A i \in 1..Len(fOut) : XfrmsOf(fAgain[i]) = XfrmsOf(fOut[i])

(***************************************************************************)
(* Image patcher: processImageForPptx, insertImageIntoSlide,               *)
(* addImageRelationship.  A relationship part of the archive is a record   *)
(*   kind  "missing"  no such entry in the archive                         *)
(*         "doc"      <Relationships> ... </Relationships>                 *)
(*         "bare"     a document without the closing tag (<Relationships/>)*)
(*         "empty"    an entry of length zero                              *)
(*   rels  the Relationship elements, each [id, target]                    *)
(***************************************************************************)
NoRels == [kind |-> "missing", rels |-> <<>>]

\* contents.file(slideRelPath, undefined): JSZip stores an empty entry
EmptiedRels == [kind |-> "empty", rels |-> <<>>]

NewRelsDoc(id, target) == [kind |-> "doc", rels |-> <<[id |-> id, target |-> target]>>]

\* a patcher that forgets to declare the relationship
addImageRelationship_forgets(relXml, id, target) == relXml

\* the entry goes in front of </Relationships>; without that tag a new
\* document replaces the part
addImageRelationship(relXml, id, target) ==
    IF relXml.kind = "doc"
    THEN [relXml EXCEPT !.rels = Append(@, [id |-> id, target |-> target])]
    ELSE NewRelsDoc(id, target)

\* an image element of the request
\*   hasId     element.id is set
\*   pos       element.x and element.y, size  element.width and element.height
\*   original  <<off, ext>>: a:off and a:ext attribute of the matched
\*             original element, <<>> when originalElement is null
\*   readable  fs.readFileSync(imagePath) succeeds
NoOriginal == <<>>

\* Math.abs(parseInt(off.x) / 914400 - element.x) < 0.1
NearPosition(attr, v) ==
    /\ v.kind = "num"
    /\ ParseIntStr(attr) # NaN
    /\ Abs(ParseIntStr(attr) * (ThousandthsPerInch \div 200)
               - v.n * (EMU_PER_INCH \div 200))
          < (EMU_PER_INCH \div 10) * (ThousandthsPerInch \div 200)

\* the r:embed of the last picture at the element's position, <<>> for null
OriginalRelId(slideXml, element) ==
    IF ~element.hasId THEN <<>>
    ELSE The({IF ~doc.ok THEN <<>>
              ELSE The({IF hits = <<>> THEN <<>> ELSE hits[Len(hits)].embed
                          : hits \in {SelectSeq(doc.nodes,
                                LAMBDA n : /\ n.tag = "p:pic"
                                           /\ n.xfrm # <<>>
                                           /\ NearPosition(n.xfrm[1], element.pos)
                                           /\ NearPosition(n.xfrm[2], element.pos)
                                           /\ n.embed # <<>>)}})
                : doc \in {ParseXml(slideXml)}})

\* x, y, imgWidth, imgHeight as written with toString()
ImageXfrm(element) ==
    IF element.original # NoOriginal
    THEN The({<<off, off, ext, ext>>
                : off \in {NumToStr(emuOfOriginal(toInches(element.original[1])))},
                  ext \in {NumToStr(emuOfOriginal(toInches(element.original[2])))}})
    ELSE The({<<off, off, ext, ext>>
                : off \in {NumToStr(emuOfEdited(element.pos))},
                  ext \in {NumToStr(emuOfEdited(element.size))}})

\* update-existing path: the pictures that embed relId take the new
\* position and size when they have a transform and the element has x and y
UpdatePics(nodes, relId, element) ==
    [n \in 1..Len(nodes) |->
        IF /\ nodes[n].tag = "p:pic"
           /\ nodes[n].embed = relId
           /\ nodes[n].xfrm # <<>>
           /\ element.pos.kind # "undefined"
        THEN [nodes[n] EXCEPT !.xfrm = ImageXfrm(element)]
        ELSE nodes[n]]

\* insertImageIntoSlide: a new p:pic at the end of the pictures; a slide
\* that does not parse is left as it is
insertImageIntoSlide(slideXml, imageId, xfrm) ==
    The({IF ~doc.ok THEN slideXml
         ELSE BuildXml(Append(doc.nodes,
                  [tag |-> "p:pic", embed |-> imageId, xfrm |-> xfrm, paras |-> <<>>]))
           : doc \in {ParseXml(slideXml)}})

\* the first index of the relationship with this id, 0 when there is none
RelIndex(rels, id) ==
    IF \E k \in 1..Len(rels) : rels[k].id = id
    THEN CHOOSE k \in 1..Len(rels) :
            rels[k].id = id /\ \A j \in 1..(k - 1) : rels[j].id # id
    ELSE 0

\* processImageForPptx on contents c = [slides, rels], for slide n, at time now
processImageForPptx(c, n, element, now) ==
    LET imageId == <<"r", "I", "d">> \o NatToStr(now)
        target == <<"i", "m", "a", "g", "e">> \o NatToStr(now)
    IN  IF ~element.readable THEN c
        ELSE IF c.rels[n].kind = "missing"
        THEN [c EXCEPT !.rels[n] = NewRelsDoc(imageId, target)]
        ELSE The({
            IF relId = <<>>
            THEN [slides |-> [c.slides EXCEPT
                                 ![n] = insertImageIntoSlide(@, imageId, ImageXfrm(element))],
                  rels |-> [c.rels EXCEPT ![n] = addImageRelationship(@, imageId, target)]]
            ELSE IF c.rels[n].kind = "empty"
            THEN [c EXCEPT !.rels[n] = addImageRelationship(@, imageId, target)]
            ELSE IF RelIndex(c.rels[n].rels, relId) = 0
            THEN [c EXCEPT !.rels[n] = EmptiedRels]
            ELSE [slides |-> [c.slides EXCEPT
                                 ![n] = BuildXml(UpdatePics(ParseXml(@).nodes, relId, element))],
                  rels |-> [c.rels EXCEPT
                               ![n].rels[RelIndex(c.rels[n].rels, relId)].target = target]]
              : relId \in {OriginalRelId(c.slides[n], element)}})

(***************************************************************************)
(* POST /api/generate: one request                                         *)
(***************************************************************************)
MaxGenSlides == 2

MaxEntries == 2

MaxElements == 2

\* Date.now() at the first image of the request
ClockStart == 1000

OneInch == <<"9", "1", "4", "4", "0", "0">>

LayoutRel == [id |-> <<"r", "I", "d", "1">>, target |-> <<"l", "a", "y", "o", "u", "t">>]

PictureRel == [id |-> <<"r", "I", "d", "2">>, target |-> <<"i", "m", "a", "g", "e", "1">>]

GenTextShape == [tag |-> "p:sp", embed |-> <<>>, xfrm |-> <<>>, paras |-> << <<(<<"a">>)>> >>]

GenPicture ==
    [tag |-> "p:pic", embed |-> PictureRel.id,
     xfrm |-> <<OneInch, OneInch, OneInch, OneInch>>, paras |-> <<>>]

\* the slides of an uploaded file, each with its relationship part: text
\* only, text and a picture, picture first, text only without a
\* relationship part, and a slide that does not parse
GenParts ==
    {[slide |-> SourceXml(<<GenTextShape>>), rels |-> [kind |-> "doc", rels |-> <<LayoutRel>>]],
     [slide |-> SourceXml(<<GenTextShape, GenPicture>>),
      rels |-> [kind |-> "doc", rels |-> <<LayoutRel, PictureRel>>]],
     [slide |-> SourceXml(<<GenPicture, GenTextShape>>),
      rels |-> [kind |-> "doc", rels |-> <<LayoutRel, PictureRel>>]],
     [slide |-> SourceXml(<<GenTextShape>>), rels |-> NoRels],
     [slide |-> BrokenSlide, rels |-> [kind |-> "doc", rels |-> <<LayoutRel>>]]}

GenArchives == UNION {[1..k -> GenParts] : k \in 1..MaxGenSlides}

\* the text edits of a request: content of the matched original, new content
GenTextEdits ==
    {[old |-> <<"a">>, new |-> <<"b">>], [old |-> <<"b">>, new |-> <<"a">>]}

\* the image elements of a request: at the picture's place with an id and a
\* matched original, elsewhere without id or original, and with a file
\* that cannot be read
GenImages ==
    {[hasId |-> TRUE, pos |-> JsNum(ThousandthsPerInch), size |-> JsNum(ThousandthsPerInch),
      original |-> <<OneInch, OneInch>>, readable |-> TRUE],
     [hasId |-> FALSE, pos |-> JsNum(2 * ThousandthsPerInch), size |-> JsNum(ThousandthsPerInch),
      original |-> NoOriginal, readable |-> TRUE],
     [hasId |-> TRUE, pos |-> JsNum(ThousandthsPerInch), size |-> JsNum(ThousandthsPerInch),
      original |-> NoOriginal, readable |-> FALSE]}

InitGen ==
    /\ gOrig \in GenArchives
    /\ gIds \in UNION {[1..k -> 1..(MaxGenSlides + 1)] : k \in 1..MaxEntries}
    /\ gSlides = [n \in 1..Len(gOrig) |-> gOrig[n].slide]
    /\ gRels = [n \in 1..Len(gOrig) |-> gOrig[n].rels]
    /\ gI = 0
    /\ gElems = 0
    /\ gLocal = <<>>
    /\ gDone = <<>>
    /\ gClock = ClockStart
    /\ gOut = <<>>
    /\ gFailed = FALSE
    /\ gPc = "parse"
    /\ IdleExceptGen

\* const originalSlides = await parsePptx(originalPath): a slide that does
\* not parse throws, the handler answers 500
ParseOriginals ==
    /\ gPc = "parse"
    /\ gPc' = IF \A n \in 1..Len(gSlides) : ParseXml(gSlides[n]).ok THEN "loop" ELSE "error"
    /\ UNCHANGED <<gOrig, gIds, gSlides, gRels, gI, gElems, gLocal, gDone, gClock, gOut, gFailed>>
    /\ UNCHANGED exceptGen

\* the slide id of the entry the loop is at
CurrentId == gIds[gI + 1]

\* a handler that gives up at the first missing slide
SkipMissingSlide_aborts ==
    /\ gPc = "loop"
    /\ gI < Len(gIds)
    /\ CurrentId > Len(gSlides)
    /\ gPc' = "error"
    /\ UNCHANGED <<gOrig, gIds, gSlides, gRels, gI, gElems, gLocal, gDone, gClock, gOut, gFailed>>
    /\ UNCHANGED exceptGen

\* if (!contents.files[slideFile]) { console.warn(...); continue; }
SkipMissingSlide ==
    /\ gPc = "loop"
    /\ gI < Len(gIds)
    /\ CurrentId > Len(gSlides)
    /\ gI' = gI + 1
    /\ gDone' = Append(gDone, "skipped")
    /\ UNCHANGED <<gOrig, gIds, gSlides, gRels, gElems, gLocal, gClock, gOut, gPc, gFailed>>
    /\ UNCHANGED exceptGen

\* let slideXml = await contents.files[slideFile].async('string')
BeginSlide ==
    /\ gPc = "loop"
    /\ gI < Len(gIds)
    /\ CurrentId <= Len(gSlides)
    /\ gLocal' = gSlides[CurrentId]
    /\ gElems' = 0
    /\ gPc' = "slide"
    /\ UNCHANGED <<gOrig, gIds, gSlides, gRels, gI, gDone, gClock, gOut, gFailed>>
    /\ UNCHANGED exceptGen

\* a text element whose content differs from its original's
EditText ==
    /\ gPc = "slide"
    /\ gElems < MaxElements
    /\ \E edit \in GenTextEdits : gLocal' = replaceTextInXml(gLocal, edit.old, edit.new)
    /\ gElems' = gElems + 1
    /\ UNCHANGED <<gOrig, gIds, gSlides, gRels, gI, gDone, gClock, gOut, gPc, gFailed>>
    /\ UNCHANGED exceptGen

\* the content of a text element the user added to the slide
NewText == <<"z">>

\* a text element for which the matcher found no original: the branch is
\* taken, its condition (originalElement && ...) is false, slideXml stays
UnmatchedText ==
    /\ gPc = "slide"
    /\ gElems < MaxElements
    /\ gLocal' = gLocal
    /\ gElems' = gElems + 1
    /\ UNCHANGED <<gOrig, gIds, gSlides, gRels, gI, gDone, gClock, gOut, gPc, gFailed>>
    /\ UNCHANGED exceptGen

\* an image element: await processImageForPptx(contents, imagePath, slideId - 1, ...);
\* the call returns false when the image file cannot be read, and the
\* handler does not look at what it returns
PatchImage ==
    /\ gPc = "slide"
    /\ gElems < MaxElements
    /\ \E element \in GenImages :
          \E c \in {processImageForPptx([slides |-> gSlides, rels |-> gRels],
                                        CurrentId, element, gClock)} :
             /\ gSlides' = c.slides
             /\ gRels' = c.rels
             /\ gFailed' = (gFailed \/ ~element.readable)
    /\ gClock' = gClock + 1
    /\ gElems' = gElems + 1
    /\ UNCHANGED <<gOrig, gIds, gI, gLocal, gDone, gOut, gPc>>
    /\ UNCHANGED exceptGen

\* contents.file(slideFile, slideXml), and on to the next entry
WriteBack ==
    /\ gPc = "slide"
    /\ gSlides' = [gSlides EXCEPT ![CurrentId] = gLocal]
    /\ gI' = gI + 1
    /\ gDone' = Append(gDone, "written")
    /\ gPc' = "loop"
    /\ UNCHANGED <<gOrig, gIds, gRels, gElems, gLocal, gClock, gOut, gFailed>>
    /\ UNCHANGED exceptGen

\* a handler that sends the temporary file
Finalize_sendsTemp ==
    /\ gPc = "loop"
    /\ gI = Len(gIds)
    /\ gOut' = gSlides
    /\ gPc' = "sent"
    /\ UNCHANGED <<gOrig, gIds, gSlides, gRels, gI, gElems, gLocal, gDone, gClock, gFailed>>
    /\ UNCHANGED exceptGen

\* the archive is written to the temporary file and normalized into the
\* output file, which res.download sends; without an output file nothing
\* is sent
Finalize ==
    /\ gPc = "loop"
    /\ gI = Len(gIds)
    /\ \E r \in {fixPptxImageDimensions(gSlides)} :
          /\ gOut' = r.slides
          /\ gPc' = IF r.ok THEN "sent" ELSE "nofile"
    /\ UNCHANGED <<gOrig, gIds, gSlides, gRels, gI, gElems, gLocal, gDone, gClock, gFailed>>
    /\ UNCHANGED exceptGen

NextGen ==
    \/ ParseOriginals
    \/ SkipMissingSlide
    \/ BeginSlide
    \/ EditText
    \/ UnmatchedText
    \/ PatchImage
    \/ WriteBack
    \/ Finalize

SpecGen == InitGen /\ [][NextGen]_vars

\* the relationship ids the pictures of a slide embed
EmbedsOf(slideXml) ==
    The({{doc.nodes[n].embed : n \in {m \in 1..Len(doc.nodes) :
                                    doc.nodes[m].tag = "p:pic" /\ doc.nodes[m].embed # <<>>}}
           : doc \in {ParseXml(slideXml)}})

DeclaredIn(rels) == {rels.rels[k].id : k \in 1..Len(rels.rels)}

\* C5: at every point of a request, whatever image patches have run, every
\* relationship id that a picture of a slide embeds is declared in that
\* slide's relationship part.
NoDanglingRelIds ==
    \A n \in 1..Len(gSlides) : EmbedsOf(gSlides[n]) \subseteq DeclaredIn(gRels[n])

\* an image patch has put a new picture into a slide of the archive
NoDanglingRelIdsWitness ==
    /\ gPc = "slide"
    /\ \E id \in EmbedsOf(gSlides[CurrentId]) : id \notin EmbedsOf(gOrig[CurrentId].slide)
    /\ NoDanglingRelIds

SlideMissing(i) == gIds[i] > Len(gOrig)

\* C10: an entry whose slide is not in the archive is passed over without
\* a change to any part of the archive; the loop goes on through the other
\* entries, whose slides are written; the archive sent back has every
\* slide of the original, and the handler gives up only on an uploaded
\* file that does not parse.
MissingSlideTolerated ==
    /\ [][SkipMissingSlide => (gSlides' = gSlides /\ gRels' = gRels)]_vars
    /\ [](gPc \in {"sent", "nofile"} =>
            /\ Len(gDone) = Len(gIds)
            /\ \A i \in 1..Len(gIds) :
                  gDone[i] = IF SlideMissing(i) THEN "skipped" ELSE "written"
            /\ gPc = "sent"
            /\ Len(gOut) = Len(gOrig))
    /\ [](gPc = "error" => \E n \in 1..Len(gOrig) : ~ParseXml(gOrig[n].slide).ok)

\* a request with an entry for a missing slide and an entry whose text edit
\* is in the archive sent back
MissingSlideToleratedWitness ==
    /\ gPc = "sent"
    /\ \E i \in 1..Len(gIds) : gDone[i] = "skipped"
    /\ \E i \in 1..Len(gIds) :
          /\ gDone[i] = "written"
          /\ gOut[gIds[i]] # FixSlide(gOrig[gIds[i]].slide)

\* C11: a request never returns partial output: it ends with the complete,
\* normalized archive sent, or with an error response; when the normalizer
\* wrote no output file or a patcher returned false, no file is sent and
\* the request does not end without a response.
NoPartialOutput ==
    /\ gPc = "sent" => ~gFailed
    /\ gPc # "nofile"

\* the pictures of a slide: relationship id and transform
PicsOf(slideXml) ==
    The({{[embed |-> doc.nodes[n].embed, xfrm |-> doc.nodes[n].xfrm]
            : n \in {m \in 1..Len(doc.nodes) : doc.nodes[m].tag = "p:pic"}}
           : doc \in {ParseXml(slideXml)}})

\* C17: what the image patcher did to a slide's entry while the slide's
\* elements were gone through is still in the entry after the write of the
\* local slideXml: every picture of the entry, with its relationship id
\* and transform, is a picture of the entry written.
ImagePatchesSurvive ==
    [][WriteBack => PicsOf(gSlides[CurrentId]) \subseteq PicsOf(gSlides'[CurrentId])]_vars

\* the bodies of the text runs of a slide
RunsOf(slideXml) == {RunBodiesOf(slideXml, 1)[k] : k \in 1..Len(RunBodiesOf(slideXml, 1))}

\* C21: an element for which the matcher finds no original is added, not
\* dropped: after the step for a text element without original the slide
\* holds a text run with the element's content, and the request goes on.
UnmatchedAdded ==
    [][UnmatchedText => (NewText \in RunsOf(gLocal') /\ gPc' = "slide")]_vars

MaxRequests == 2

\* how far the clock moves while the requests run
MaxTicks == 2

UploadsDir == <<"u", "p", "l", "o", "a", "d", "s", "/">>

\* file.originalname, templateName or template._id of a request; <<>> for
\* a generate request without templateName
RequestNames == {<<>>, <<"a">>, <<"b">>}

RequestKinds == {"upload", "generate", "template", "shape"}

\* crypto.randomUUID(): 122 random bits, a value that is not handed out twice
Uuid(n) == <<"u", "u", "i", "d">> \o NatToStr(n)

\* multer: Date.now() + '-' + file.originalname
MulterPath(name, now) == UploadsDir \o NatToStr(now) \o <<"-">> \o name

\* `original_${Date.now()}_${req.file.originalname}`
OriginalCopyPath(name, now) ==
    UploadsDir \o <<"o", "r", "i", "g", "i", "n", "a", "l", "_">> \o NatToStr(now)
               \o <<"_">> \o name

\* `slide${slideNum}_image${idx}_${Date.now()}.${extension}`, first image
\* of slide 1
ExtractedImagePath(now) ==
    UploadsDir \o <<"s", "l", "i", "d", "e", "1", "_", "i", "m", "a", "g", "e", "0", "_">>
               \o NatToStr(now) \o <<".", "p", "n", "g">>

\* templateName ? `${templateName}-${Date.now()}.pptx` : `updated-${Date.now()}.pptx`
outputFilename(name, now) ==
    (IF name # <<>> THEN name ELSE <<"u", "p", "d", "a", "t", "e", "d">>)
    \o <<"-">> \o NatToStr(now) \o <<".", "p", "p", "t", "x">>

\* tempPath and outputPath of POST /api/generate
GeneratePaths(name, now) ==
    {UploadsDir \o <<"t", "e", "m", "p", "-">> \o outputFilename(name, now),
     UploadsDir \o outputFilename(name, now)}

\* tempPath and outputPath of GET /api/generate-template
TemplatePaths(id, uuid) ==
    {UploadsDir \o <<"t", "e", "m", "p", "-">> \o id \o <<"-">> \o uuid
                \o <<".", "p", "p", "t", "x">>,
     UploadsDir \o id \o <<"-">> \o uuid \o <<".", "p", "p", "t", "x">>}

\* generateShape: `shape_${Date.now()}.svg`, and the .png made from it
ShapePaths(now) ==
    {UploadsDir \o <<"s", "h", "a", "p", "e", "_">> \o NatToStr(now) \o ext
        : ext \in {<<".", "s", "v", "g">>, <<".", "p", "n", "g">>}}

InitNames ==
    /\ nClock = ClockStart
    /\ nUuid = 0
    /\ nReqs \in [1..MaxRequests -> [kind : RequestKinds, name : RequestNames, pc : {0}]]
    /\ \A r \in 1..MaxRequests :
          /\ nReqs[r].kind \in {"upload", "template"} => nReqs[r].name # <<>>
          /\ nReqs[r].kind = "shape" => nReqs[r].name = <<>>
    /\ nPaths = [r \in 1..MaxRequests |-> {}]
    /\ IdleExceptNames

\* a millisecond passes
Tick ==
    /\ nClock < ClockStart + MaxTicks
    /\ nClock' = nClock + 1
    /\ UNCHANGED <<nUuid, nReqs, nPaths>>
    /\ UNCHANGED exceptNames

\* POST /api/upload: multer stores the file, the handler copies it, the
\* extractor saves an image; each step reads the clock
UploadStep ==
    /\ \E r \in 1..MaxRequests :
          /\ nReqs[r].kind = "upload"
          /\ nReqs[r].pc < 3
          /\ nPaths' = [nPaths EXCEPT ![r] = @ \cup
                {CASE nReqs[r].pc = 0 -> MulterPath(nReqs[r].name, nClock)
                   [] nReqs[r].pc = 1 -> OriginalCopyPath(nReqs[r].name, nClock)
                   [] nReqs[r].pc = 2 -> ExtractedImagePath(nClock)}]
          /\ nReqs' = [nReqs EXCEPT ![r].pc = @ + 1]
    /\ UNCHANGED <<nClock, nUuid>>
    /\ UNCHANGED exceptNames

\* POST /api/generate
GenerateNames ==
    /\ \E r \in 1..MaxRequests :
          /\ nReqs[r].kind = "generate"
          /\ nReqs[r].pc = 0
          /\ nPaths' = [nPaths EXCEPT ![r] = GeneratePaths(nReqs[r].name, nClock)]
          /\ nReqs' = [nReqs EXCEPT ![r].pc = 1]
    /\ UNCHANGED <<nClock, nUuid>>
    /\ UNCHANGED exceptNames

\* GET /api/generate-template/:id
TemplateNames ==
    /\ \E r \in 1..MaxRequests :
          /\ nReqs[r].kind = "template"
          /\ nReqs[r].pc = 0
          /\ nPaths' = [nPaths EXCEPT ![r] = TemplatePaths(nReqs[r].name, Uuid(nUuid))]
          /\ nReqs' = [nReqs EXCEPT ![r].pc = 1]
    /\ nUuid' = nUuid + 1
    /\ UNCHANGED nClock
    /\ UNCHANGED exceptNames

\* generateShape for a shape element
ShapeNames ==
    /\ \E r \in 1..MaxRequests :
          /\ nReqs[r].kind = "shape"
          /\ nReqs[r].pc = 0
          /\ nPaths' = [nPaths EXCEPT ![r] = ShapePaths(nClock)]
          /\ nReqs' = [nReqs EXCEPT ![r].pc = 1]
    /\ UNCHANGED <<nClock, nUuid>>
    /\ UNCHANGED exceptNames

NextNames ==
    \/ Tick
    \/ UploadStep
    \/ GenerateNames
    \/ TemplateNames
    \/ ShapeNames

SpecNames == InitNames /\ [][NextNames]_vars

\* C12: the paths that two concurrent requests create in the uploads
\* directory are distinct, also when both read the clock in the same
\* millisecond and carry the same name.
CollisionFree ==
    \A r1, r2 \in 1..MaxRequests : r1 # r2 => nPaths[r1] \cap nPaths[r2] = {}

(***************************************************************************)
(* parsePptx: slide discovery.  The archive is the sequence of its entry   *)
(* names, Object.keys(contents.files); a name is the sequence of its       *)
(* characters.                                                             *)
(***************************************************************************)
SlidesPrefix ==
    <<"p", "p", "t", "/", "s", "l", "i", "d", "e", "s", "/", "s", "l", "i", "d", "e">>

RelsPrefix ==
    <<"p", "p", "t", "/", "s", "l", "i", "d", "e", "s", "/", "_", "r", "e", "l", "s", "/",
      "s", "l", "i", "d", "e">>

XmlSuffix == <<".", "x", "m", "l">>

RelsSuffix == <<".", "x", "m", "l", ".", "r", "e", "l", "s">>

SlideWord == <<"s", "l", "i", "d", "e">>

SlidePath(n) == SlidesPrefix \o NatToStr(n) \o XmlSuffix

RelsPath(n) == RelsPrefix \o NatToStr(n) \o RelsSuffix

\* entries of every archive: a layout, its relationship part, a picture
OtherPaths ==
    << <<"p", "p", "t", "/", "s", "l", "i", "d", "e", "L", "a", "y", "o", "u", "t", "s", "/",
         "s", "l", "i", "d", "e", "L", "a", "y", "o", "u", "t", "1", ".", "x", "m", "l">>,
       <<"p", "p", "t", "/", "m", "e", "d", "i", "a", "/", "i", "m", "a", "g", "e", "1",
         ".", "p", "n", "g">> >>

\* name.endsWith(suf)
EndsWith(str, suf) ==
    Len(suf) <= Len(str) /\ SubSeq(str, Len(str) - Len(suf) + 1, Len(str)) = suf

\* name.includes(sub)
Includes(str, sub) == \E i \in 1..Len(str) : StartsWith(str, i, sub)

\* the index behind the digits that start at str[i]
RECURSIVE DigitsEnd(_, _)
DigitsEnd(str, i) ==
    IF i > Len(str) \/ ~IsDigit(str[i]) THEN i ELSE DigitsEnd(str, i + 1)

\* /slide(\d+)\.xml/ matches at str[i]
SlideMatchAt(str, i) ==
    /\ StartsWith(str, i, SlideWord)
    /\ DigitsEnd(str, i + Len(SlideWord)) > i + Len(SlideWord)
    /\ StartsWith(str, DigitsEnd(str, i + Len(SlideWord)), XmlSuffix)

\* parseInt(name.match(/slide(\d+)\.xml/)[1]); NaN stands for the
\* TypeError of a name without match
SlideNumberOf(name) ==
    IF \E i \in 1..Len(name) : SlideMatchAt(name, i)
    THEN The({ParseIntStr(SubSeq(name, i + Len(SlideWord),
                                  DigitsEnd(name, i + Len(SlideWord)) - 1))
                : i \in {CHOOSE j \in 1..Len(name) :
                            /\ SlideMatchAt(name, j)
                            /\ \A k \in 1..(j - 1) : ~SlideMatchAt(name, k)}})
    ELSE NaN

\* UTF-16 code units of the characters of a slide path
CharCode(c) ==
    IF IsDigit(c) THEN 48 + DigitVal(c)
    ELSE CASE c = "." -> 46 [] c = "/" -> 47 [] c = "_" -> 95 [] OTHER -> 100

\* the comparator of Array.prototype.sort without argument: by code units
CompareSlides_lexical(a, b) ==
    IF a = b THEN 0
    ELSE IF \E i \in 1..Len(a) : i > Len(b) \/ a[i] # b[i]
    THEN The({IF i > Len(b) THEN 1 ELSE CharCode(a[i]) - CharCode(b[i])
                : i \in {CHOOSE j \in 1..Len(a) :
                            /\ j > Len(b) \/ a[j] # b[j]
                            /\ \A k \in 1..(j - 1) : k <= Len(b) /\ a[k] = b[k]}})
    ELSE -1

\* (a, b) => numA - numB
CompareSlides(a, b) == SlideNumberOf(a) - SlideNumberOf(b)

\* Array.prototype.sort with that comparator (stable): insertion of
\* names[n] into the sorted names[1..n-1]
RECURSIVE SortSlides(_)
SortSlides(names) ==
    IF Len(names) <= 1 THEN names
    ELSE The({The({SubSeq(front, 1, k) \o <<last>> \o SubSeq(front, k + 1, Len(front))
                     : k \in {Cardinality({j \in 1..Len(front) :
                                              CompareSlides(front[j], last) <= 0})}})
                : front \in {SortSlides(SubSeq(names, 1, Len(names) - 1))},
                  last \in {names[Len(names)]}})

\* the slide files of the archive, in the order parsePptx goes through them
slideFiles(names) ==
    SortSlides(SelectSeq(names, LAMBDA name :
                   StartsWith(name, 1, SlidesPrefix) /\ EndsWith(name, XmlSuffix)))

relsFiles(names) ==
    SelectSeq(names, LAMBDA name :
        StartsWith(name, 1, RelsPrefix) /\ EndsWith(name, RelsSuffix))

\* what a relationship part of the archives under test declares: rId2,
\* with the picture of its own slide as target
RelsEntries(name) ==
    {[id |-> <<"r", "I", "d", "2">>,
      target |-> <<"i", "m", "a", "g", "e">> \o NatToStr(SlideNumberOf(name))]}

\* relsFiles.find(rel => rel.includes(`slide${i + 1}.xml.rels`)) for the
\* slide at index i (from 0), and the relationships read from it
relationships(names, i) ==
    The({IF hits = <<>> THEN {} ELSE RelsEntries(hits[1])
           : hits \in {SelectSeq(relsFiles(names), LAMBDA rel :
                          Includes(rel, SlideWord \o NatToStr(i + 1) \o RelsSuffix))}})

\* parsePptx: threw = TRUE when a slide does not parse
parsePptx(names, broken) ==
    The({IF \E k \in 1..Len(files) : SlideNumberOf(files[k]) \in broken
         THEN [threw |-> TRUE, slides |-> <<>>]
         ELSE [threw |-> FALSE,
               slides |-> [k \in 1..Len(files) |->
                             [id |-> SlideNumberOf(files[k]),
                              rels |-> relationships(names, k - 1)]]]
           : files \in {slideFiles(names)}})

\* the slide numbers an archive can hold, and the orders in which the
\* archive lists its entries
SlideNumbers == {1, 2, 3, 10}

ZipOrders == {<<1, 2, 3, 10>>, <<10, 3, 2, 1>>, <<1, 10, 2, 3>>}

ArchiveNames(order, slides, rels) ==
    [k \in 1..Len(SelectSeq(order, LAMBDA n : n \in rels)) |->
        RelsPath(SelectSeq(order, LAMBDA n : n \in rels)[k])]
    \o OtherPaths
    \o [k \in 1..Len(SelectSeq(order, LAMBDA n : n \in slides)) |->
           SlidePath(SelectSeq(order, LAMBDA n : n \in slides)[k])]

InitParse ==
    /\ \E order \in ZipOrders, slides \in SUBSET SlideNumbers \ {{}},
          rels \in SUBSET SlideNumbers :
          pNames = ArchiveNames(order, slides, rels)
    /\ pBroken \in {{}} \cup {{n} : n \in SlideNumbers}
    /\ \A n \in pBroken : \E k \in 1..Len(pNames) : pNames[k] = SlidePath(n)
    /\ pOut = <<>>
    /\ pPc = "start"
    /\ IdleExceptParse

\* const slides = await parsePptx(filePath), as POST /api/upload calls it
ParsePptx ==
    /\ pPc = "start"
    /\ \E r \in {parsePptx(pNames, pBroken)} :
          /\ pOut' = r.slides
          /\ pPc' = IF r.threw THEN "threw" ELSE "returned"
    /\ UNCHANGED <<pNames, pBroken>>
    /\ UNCHANGED exceptParse

NextParse == ParsePptx

SpecParse == InitParse /\ [][NextParse]_vars

\* the N for which the archive holds ppt/slides/slideN.xml
SlidesInArchive == {n \in SlideNumbers : \E k \in 1..Len(pNames) : pNames[k] = SlidePath(n)}

\* C13: parsePptx returns one slide for each ppt/slides/slideN.xml of the
\* archive, in ascending order of N as a number, each with id N, also when
\* the numbers have gaps.
SlidesNumbered ==
    pPc = "returned"
    => /\ Len(pOut) = Cardinality(SlidesInArchive)
       /\ {pOut[k].id : k \in 1..Len(pOut)} = SlidesInArchive
       /\ \A j, k \in 1..Len(pOut) : j < k => pOut[j].id < pOut[k].id

\* slides 2 or 3 and 10 with a gap in the numbers, listed by the archive
\* with slide 10 in front
SlidesNumberedWitness ==
    /\ pPc = "returned"
    /\ 10 \in SlidesInArchive
    /\ 1 \notin SlidesInArchive
    /\ Len(pOut) = 2
    /\ pOut[2].id = 10
    /\ \E j, k \in 1..Len(pNames) :
          j < k /\ pNames[j] = SlidePath(10) /\ pNames[k] = SlidePath(pOut[1].id)

\* C18: the relationships used for the slide of ppt/slides/slideN.xml are
\* those of ppt/slides/_rels/slideN.xml.rels, never those of another
\* slide's part, also when N is not the slide's place in the sorted list.
RelsOfOwnSlide ==
    pPc = "returned"
    => \A k \in 1..Len(pOut) :
          pOut[k].rels = IF \E j \in 1..Len(pNames) : pNames[j] = RelsPath(pOut[k].id)
                         THEN RelsEntries(RelsPath(pOut[k].id))
                         ELSE {}

\* C20: with exactly one slide that does not parse, the upload still
\* returns the other slides.
OneMalformedSlideTolerated ==
    (pPc # "start" /\ Cardinality(pBroken) = 1)
    => /\ pPc = "returned"
       /\ {pOut[k].id : k \in 1..Len(pOut)} = SlidesInArchive \ pBroken

(***************************************************************************)
(* Table injector: insertTableIntoSlide.  tableData is a record            *)
(*   kind  "undefined" | "null" | "string" | "object" | "array"            *)
(*   rows  for an array, its rows, each a sequence of cell strings         *)
(* and element is [x, y, width, height] of JS values.                      *)
(***************************************************************************)
DefaultRows == 5

DefaultCols == 5

\* a grid that numbers rows and columns from 0
DefaultGrid_zeroBased ==
    [i \in 1..DefaultRows |-> [j \in 1..DefaultCols |->
        <<"C", "e", "l", "l", " ">> \o NatToStr(i - 1) \o <<"-">> \o NatToStr(j - 1)]]

\* Array(5).fill().map((_, i) => Array(5).fill().map((_, j) => `Cell ${i+1}-${j+1}`))
DefaultGrid ==
    [i \in 1..DefaultRows |-> [j \in 1..DefaultCols |->
        <<"C", "e", "l", "l", " ">> \o NatToStr(i) \o <<"-">> \o NatToStr(j)]]

\* !tableData || !Array.isArray(tableData) || tableData.length === 0
Unusable(tableData) == tableData.kind # "array" \/ tableData.rows = <<>>

\* v || d, for a default of d inches
OrInches(v, d) ==
    IF v.kind = "undefined" \/ (v.kind = "num" /\ v.n = 0)
    THEN JsNum(d * ThousandthsPerInch)
    ELSE v

DefaultWidth == 6

DefaultHeight == 3

\* Math.round(a / n) for integers a >= 0, n >= 0, written into a template
\* literal
RoundedQuotient(a, n) ==
    IF a = NaN \/ (a = 0 /\ n = 0) THEN <<"N", "a", "N">>
    ELSE IF n = 0 THEN <<"I", "n", "f", "i", "n", "i", "t", "y">>
    ELSE NumToStr((2 * a + n) \div (2 * n))

\* the replacement string of String.prototype.replace with a string as
\* pattern: $$, $&, $` and $' are patterns, there are no groups
RECURSIVE SubstituteLiteral(_, _, _)
SubstituteLiteral(repl, i, m) ==
    The({IF p = 0 \/ p = Len(repl) THEN SubSeq(repl, i, Len(repl))
         ELSE SubSeq(repl, i, p - 1)
              \o (CASE repl[p + 1] = "$" -> <<"$">>
                     [] repl[p + 1] = "&" -> m.match
                     [] repl[p + 1] = "`" -> m.before
                     [] repl[p + 1] = "'" -> m.after
                     [] OTHER -> <<"$", repl[p + 1]>>)
              \o SubstituteLiteral(repl, p + 2, m)
           : p \in {IndexOf(repl, "$", i)}})

\* one a:tc
TableCell(cell, rowIndex) ==
    <<"<a:tc>", "<a:t>">> \o cell
    \o <<"</a:t>", "<a:srgbClr val=", IF rowIndex % 2 = 0 THEN "FFFFFF" ELSE "FF0000",
         "/>", "</a:tc>">>

\* one a:tr; rowIndex counts from 0
TableRow(row, rowIndex, h, rowCount) ==
    <<"<a:tr h=">> \o RoundedQuotient(h, rowCount) \o <<"\">">>
    \o Flatten([c \in 1..Len(row) |-> TableCell(row[c], rowIndex)])
    \o <<"</a:tr>">>

\* tableXml; "~" is the line break the template literal starts with
tableXml(grid, element, now) ==
    The({<<"~", "<p:graphicFrame>", "<p:cNvPr id=">> \o NatToStr(now) \o <<"/>">>
         \o <<"<a:off x=">> \o NumToStr(x) \o <<" y=">> \o NumToStr(y) \o <<"/>">>
         \o <<"<a:ext cx=">> \o NumToStr(w) \o <<" cy=">> \o NumToStr(h) \o <<"/>">>
         \o <<"<a:tbl>", "<a:tblGrid>">>
         \o Flatten([c \in 1..Len(grid[1]) |->
                        <<"<a:gridCol w=">> \o RoundedQuotient(w, Len(grid[1])) \o <<"/>">>])
         \o <<"</a:tblGrid>">>
         \o Flatten([r \in 1..Len(grid) |-> TableRow(grid[r], r - 1, h, Len(grid))])
         \o <<"</a:tbl>", "</p:graphicFrame>">>
           : x \in {emuOfTable(element.x)},
             y \in {emuOfTable(element.y)},
             w \in {DoubleRound(TimesEmu(OrInches(element.width, DefaultWidth)))},
             h \in {DoubleRound(TimesEmu(OrInches(element.height, DefaultHeight)))}})

\* slideXml.replace('</p:spTree>', tableXml + '</p:spTree>'): the first
\* closing tag only; a slide without one comes back as it is
insertTableIntoSlide(slideXml, tableData, element, now) ==
    The({IF p = 0 THEN slideXml
         ELSE SubSeq(slideXml, 1, p - 1)
              \o SubstituteLiteral(
                    tableXml(IF Unusable(tableData) THEN DefaultGrid ELSE tableData.rows,
                             element, now) \o <<"</p:spTree>">>,
                    1,
                    [match |-> <<"</p:spTree>">>,
                     before |-> SubSeq(slideXml, 1, p - 1),
                     after |-> SubSeq(slideXml, p + 1, Len(slideXml))])
              \o SubSeq(slideXml, p + 1, Len(slideXml))
           : p \in {IndexOf(slideXml, "</p:spTree>", 1)}})

\* the slides, grids and elements the injector is called with
\* a table of an uploaded file and the table element extracted from it
TableFrameGrid == << <<(<<"A">>), <<"B">> >>, <<(<<"C">>), <<"D">> >> >>

TableFrameElement ==
    [x |-> JsNum(ThousandthsPerInch), y |-> JsNum(ThousandthsPerInch),
     width |-> JsNum(4 * ThousandthsPerInch), height |-> JsNum(2 * ThousandthsPerInch)]

TableSlide ==
    insertTableIntoSlide(SourceXml(<<GenTextShape>>),
                         [kind |-> "array", rows |-> TableFrameGrid],
                         TableFrameElement, ClockStart - 1)

TableSlides ==
    {SourceXml(<<>>), SourceXml(<<GenTextShape>>), BuildXml(<<GenTextShape, GenPicture>>),
     BrokenSlide, TableSlide}

TableInputs ==
    {[kind |-> k, rows |-> <<>>] : k \in {"undefined", "null", "string", "object", "array"}}
    \cup {[kind |-> "array", rows |-> rows] : rows \in
            { << <<(<<"A">>), <<"B">> >>, <<(<<"C">>), <<"D">> >> >>,
              << <<(<<"A">>), <<"B">> >>, <<(<<"C">>)>> >>,
              << <<(<<"A">>)>>, <<(<<"C">>), <<"D">> >> >>,
              << <<(<<"A">>), <<>> >> >> }}

TableElements ==
    [x : {JsUndefined, JsNum(0), JsNum(ThousandthsPerInch), JsNum(1234)},
     y : {JsNum(ThousandthsPerInch)},
     width : {JsUndefined, JsNum(4 * ThousandthsPerInch)},
     height : {JsNum(2 * ThousandthsPerInch)}]

InitTable ==
    /\ bXml \in TableSlides
    /\ bData \in TableInputs
    /\ bElem \in TableElements
    /\ bOut = <<>>
    /\ bPc = "start"
    /\ IdleExceptTable

\* slideXml = insertTableIntoSlide(slideXml, tableData, element)
InsertTable ==
    /\ bPc = "start"
    /\ bOut' = insertTableIntoSlide(bXml, bData, bElem, ClockStart)
    /\ bPc' = "done"
    /\ UNCHANGED <<bXml, bData, bElem>>
    /\ UNCHANGED exceptTable

NextTable == InsertTable

SpecTable == InitTable /\ [][NextTable]_vars

\* the indices at which tok stands, ascending
IndicesOf(toks, tok) ==
    SelectSeq([i \in 1..Len(toks) |-> i], LAMBDA i : toks[i] = tok)

\* the texts between opener and closer, in order
Between(toks, opener, closer) ==
    The({[k \in 1..Len(opens) |-> SubSeq(toks, opens[k] + 1, closes[k] - 1)]
           : opens \in {IndicesOf(toks, opener)}, closes \in {IndicesOf(toks, closer)}})

\* per a:tr of a table the texts of its cells
RowsOf(toks) ==
    The({[r \in 1..Len(trs) |-> Between(trs[r], "<a:t>", "</a:t>")]
           : trs \in {Between(toks, "<a:tr h=", "</a:tr>")}})

\* where the shape tree of the argument closes, and what the call put
\* in front of it
ClosingAt == IndexOf(bXml, "</p:spTree>", 1)

Inserted == SubSeq(bOut, ClosingAt, Len(bOut) - (Len(bXml) - ClosingAt + 1))

\* the call changed nothing but for what it put in front of the closing tag
OnlyInserted ==
    /\ Len(bOut) >= Len(bXml)
    /\ SubSeq(bOut, 1, ClosingAt - 1) = SubSeq(bXml, 1, ClosingAt - 1)
    /\ SubSeq(bOut, Len(bOut) - (Len(bXml) - ClosingAt), Len(bOut))
          = SubSeq(bXml, ClosingAt, Len(bXml))

\* what was inserted is one p:graphicFrame, closed right in front of the
\* closing tag of the shape tree
OneFrame ==
    /\ IndicesOf(Inserted, "<p:graphicFrame>") = <<2>>
    /\ IndicesOf(Inserted, "</p:graphicFrame>") = <<Len(Inserted)>>
    /\ Inserted[1] = "~"

\* C14: for a slide with a shape-tree closing tag and tableData that is
\* missing, not an array or an empty array, the call inserts exactly one
\* p:graphicFrame immediately before </p:spTree>, holding 5 rows of 5 cells
\* with the text "Cell r-c" in row r, column c; the rest of the slide is
\* unchanged.
TableDefault ==
    (bPc = "done" /\ Unusable(bData) /\ ClosingAt # 0)
    => /\ OnlyInserted
       /\ OneFrame
       /\ Len(IndicesOf(Inserted, "<a:gridCol w=")) = 5
       /\ Len(RowsOf(Inserted)) = 5
       /\ \A r \in 1..5 :
             /\ Len(RowsOf(Inserted)[r]) = 5
             /\ \A c \in 1..5 :
                   RowsOf(Inserted)[r][c]
                     = <<"C", "e", "l", "l", " ">> \o NatToStr(r) \o <<"-">> \o NatToStr(c)

\* an empty array as tableData on a slide that holds a shape and a picture
TableDefaultWitness ==
    /\ bPc = "done"
    /\ bData = [kind |-> "array", rows |-> <<>>]
    /\ bXml = BuildXml(<<GenTextShape, GenPicture>>)
    /\ Len(bOut) > Len(bXml)
    /\ RowsOf(Inserted)[5][5] = <<"C", "e", "l", "l", " ", "5", "-", "5">>

\* C15: for a non-empty grid the inserted frame has one a:tr per row of
\* the grid, in order, one a:tc per cell of the row, in order, with the
\* cell's text, and one a:gridCol per cell of the row; a grid whose rows
\* differ in length gives a table whose every row has as many cells as
\* there are grid columns.
TableStructure ==
    (bPc = "done" /\ ~Unusable(bData) /\ ClosingAt # 0)
    => /\ OnlyInserted
       /\ OneFrame
       /\ RowsOf(Inserted) = bData.rows
       /\ \A r \in 1..Len(RowsOf(Inserted)) :
             Len(RowsOf(Inserted)[r]) = Len(IndicesOf(Inserted, "<a:gridCol w="))

\* the table frames of a slide
FramesIn(slideXml) == Len(IndicesOf(slideXml, "<p:graphicFrame>"))

\* C28: when the table element comes back exactly as it was extracted from
\* the slide's table (same grid, same position and size), the slide
\* written has as many table frames as the original slide, so repeating
\* upload and generate does not grow their number.
NoTablesAdded ==
    (/\ bPc = "done"
     /\ FramesIn(bXml) > 0
     /\ bData = [kind |-> "array", rows |-> RowsOf(bXml)]
     /\ bElem = TableFrameElement)
    => FramesIn(bOut) = FramesIn(bXml)

(***************************************************************************)
(* The slide loops of POST /api/generate and GET /api/generate-template:   *)
(* which slide file an entry of slidesData is applied to, and which        *)
(* original slide its elements are matched against.  An entry is the id    *)
(* of its edited slide, 0 when it carries none.                            *)
(***************************************************************************)
MaxApplySlide == 3

MaxApplyEntries == 2

\* the elements of a set of numbers, ascending
RECURSIVE Ascending(_)
Ascending(S) ==
    IF S = {} THEN <<>> ELSE <<Min(S)>> \o Ascending(S \ {Min(S)})

\* slidesData.sort((a, b) => parseInt(a.id) - parseInt(b.id))
RECURSIVE SortById(_)
SortById(ids) ==
    IF Len(ids) <= 1 THEN ids
    ELSE The({The({SubSeq(front, 1, k) \o <<last>> \o SubSeq(front, k + 1, Len(front))
                     : k \in {Cardinality({j \in 1..Len(front) : front[j] <= last})}})
                : front \in {SortById(SubSeq(ids, 1, Len(ids) - 1))},
                  last \in {ids[Len(ids)]}})

InitApply ==
    /\ eNums \in {Ascending(S) : S \in SUBSET (1..MaxApplySlide) \ {{}}}
    /\ eIds \in UNION {[1..k -> 0..MaxApplySlide] : k \in 1..MaxApplyEntries}
    /\ eI = 0
    /\ eApplied = <<>>
    /\ ePc = "start"
    /\ IdleExceptApply

\* app.post('/api/generate'): slidesData as the request carries it
StartGenerate ==
    /\ ePc = "start"
    /\ ePc' = "generate"
    /\ UNCHANGED <<eNums, eIds, eI, eApplied>>
    /\ UNCHANGED exceptApply

\* app.get('/api/generate-template/:id'): slidesData sorted by id
StartTemplate ==
    /\ ePc = "start"
    /\ \A k \in 1..Len(eIds) : eIds[k] # 0
    /\ eIds' = SortById(eIds)
    /\ ePc' = "template"
    /\ UNCHANGED <<eNums, eI, eApplied>>
    /\ UNCHANGED exceptApply

\* const slideId = slideData.id || (i + 1)
generateSlideId == IF eIds[eI + 1] # 0 THEN eIds[eI + 1] ELSE eI + 1

\* originalSlides.find(s => s.id === slideId) || originalSlides[i]; 0 for
\* undefined
generateOriginal ==
    IF \E k \in 1..Len(eNums) : eNums[k] = generateSlideId THEN generateSlideId
    ELSE IF eI + 1 <= Len(eNums) THEN eNums[eI + 1]
    ELSE 0

\* one entry of the loop of POST /api/generate; a slide file that is
\* missing is passed over
GenerateEntry ==
    /\ ePc = "generate"
    /\ eI < Len(eIds)
    /\ eApplied' = IF \E k \in 1..Len(eNums) : eNums[k] = generateSlideId
                    THEN Append(eApplied, [entry |-> eIds[eI + 1],
                                           file |-> generateSlideId,
                                           original |-> generateOriginal])
                    ELSE eApplied
    /\ eI' = eI + 1
    /\ UNCHANGED <<eNums, eIds, ePc>>
    /\ UNCHANGED exceptApply

\* one entry of the loop of GET /api/generate-template: the slide file
\* is availableSlideFiles[i]
TemplateEntry ==
    /\ ePc = "template"
    /\ eI < Len(eIds)
    /\ eI < Len(eNums)
    /\ eApplied' = Append(eApplied, [entry |-> eIds[eI + 1],
                                      file |-> eNums[eI + 1],
                                      original |-> eNums[eI + 1]])
    /\ eI' = eI + 1
    /\ UNCHANGED <<eNums, eIds, ePc>>
    /\ UNCHANGED exceptApply

\* the loop is through
FinishApply ==
    /\ \/ ePc = "generate" /\ eI = Len(eIds)
       \/ ePc = "template" /\ (eI = Len(eIds) \/ eI = Len(eNums))
    /\ ePc' = "done"
    /\ UNCHANGED <<eNums, eIds, eI, eApplied>>
    /\ UNCHANGED exceptApply

NextApply ==
    \/ StartGenerate
    \/ StartTemplate
    \/ GenerateEntry
    \/ TemplateEntry
    \/ FinishApply

SpecApply == InitApply /\ [][NextApply]_vars

\* C19: in both endpoints the edits of the edited slide with id N are
\* matched against the original elements of slide N and applied to
\* ppt/slides/slideN.xml and to no other slide, also when the slide
\* numbers of the archive have gaps or the edited list leaves slides out.
EditsBySlideId ==
    \A k \in 1..Len(eApplied) :
        eApplied[k].entry # 0
        => (eApplied[k].file = eApplied[k].entry /\ eApplied[k].original = eApplied[k].entry)

(***************************************************************************)
(* extractSlideElements.  The slide is what xml2js made of it: the         *)
(* children of the shape tree, each                                        *)
(*   tag      "p:sp" | "p:pic" | "p:cxnSp" | "p:graphicFrame"              *)
(*   xfrm     <<x, y, cx, cy>> of the transform found, <<>> when none is   *)
(*   paras    p:txBody: per a:p the texts of its runs (<<>>: no p:txBody)  *)
(*   graphic  a:graphic/a:graphicData: "none" | "chart" | "table"          *)
(*   rows     a:tbl: per a:tr the texts of its cells                       *)
(*   embed    r:embed of p:blipFill/a:blip (<<>>: no p:blipFill)           *)
(* A path, a target and a text are sequences of characters; the bytes of   *)
(* an archive entry are named by the entry's path.                         *)
(***************************************************************************)
MaxTree == 2

UpperCase ==
    <<"A", "B", "C", "D", "E", "F", "G", "H", "I", "J", "K", "L", "M",
      "N", "O", "P", "Q", "R", "S", "T", "U", "V", "W", "X", "Y", "Z">>

LowerCase ==
    <<"a", "b", "c", "d", "e", "f", "g", "h", "i", "j", "k", "l", "m",
      "n", "o", "p", "q", "r", "s", "t", "u", "v", "w", "x", "y", "z">>

toLowerCase(str) ==
    [i \in 1..Len(str) |->
        IF \E k \in 1..26 : UpperCase[k] = str[i]
        THEN LowerCase[CHOOSE k \in 1..26 : UpperCase[k] = str[i]]
        ELSE str[i]]

\* the last index at which ch stands, 0 when there is none
LastIndexOf(str, ch) ==
    IF \E i \in 1..Len(str) : str[i] = ch
    THEN CHOOSE i \in 1..Len(str) : str[i] = ch /\ \A j \in (i + 1)..Len(str) : str[j] # ch
    ELSE 0

\* path.basename(p)
basename(p) == SubSeq(p, LastIndexOf(p, "/") + 1, Len(p))

\* imagePath.split('.').pop().toLowerCase()
extensionOf(p) == toLowerCase(SubSeq(p, LastIndexOf(p, ".") + 1, Len(p)))

PptDir == <<"p", "p", "t", "/">>

MediaDir == <<"m", "e", "d", "i", "a", "/">>

SlidesDir == <<"s", "l", "i", "d", "e", "s", "/">>

LayoutsDir == <<"s", "l", "i", "d", "e", "L", "a", "y", "o", "u", "t", "s", "/">>

LayoutWord == <<"s", "l", "i", "d", "e", "L", "a", "y", "o", "u", "t">>

ImageExtensions ==
    {<<"p", "n", "g">>, <<"j", "p", "g">>, <<"j", "p", "e", "g">>, <<"g", "i", "f">>,
     <<"b", "m", "p">>, <<"t", "i", "f", "f">>, <<"s", "v", "g">>, <<"e", "m", "f">>,
     <<"w", "m", "f">>}

isLikelyImage(p) ==
    IF p = <<>> THEN FALSE
    ELSE IF \E ext \in ImageExtensions : EndsWith(toLowerCase(p), <<".">> \o ext) THEN TRUE
    ELSE IF \/ EndsWith(p, XmlSuffix)
            \/ Includes(p, LayoutWord)
            \/ Includes(p, <<"n", "o", "t", "e", "s", "S", "l", "i", "d", "e">>)
            \/ Includes(p, <<"t", "h", "e", "m", "e">>)
         THEN FALSE
    ELSE Includes(p, MediaDir) \/ Includes(p, <<"i", "m", "a", "g", "e">>)

\* the candidate paths of the earlier server version, in its order
possiblePaths_earlier(imagePath, slideNum) ==
    <<PptDir \o imagePath,
      PptDir \o MediaDir \o imagePath,
      imagePath,
      PptDir \o MediaDir \o basename(imagePath),
      imagePath,
      MediaDir \o basename(imagePath),
      PptDir \o SlidesDir \o MediaDir \o basename(imagePath)>>

\* const possiblePaths = [...]
possiblePaths(imagePath, slideNum) ==
    <<PptDir \o MediaDir \o basename(imagePath),
      PptDir \o imagePath,
      imagePath,
      PptDir \o MediaDir \o basename(imagePath),
      MediaDir \o basename(imagePath),
      PptDir \o SlidesDir \o MediaDir \o basename(imagePath),
      PptDir \o LayoutsDir \o basename(imagePath),
      PptDir \o LayoutsDir \o basename(imagePath),
      PptDir \o LayoutsDir \o LayoutWord \o NatToStr(slideNum) \o XmlSuffix>>

InArchive(files, p) == \E k \in 1..Len(files) : files[k] = p

\* the entry whose bytes become imageData: the first candidate that is in
\* the archive, else the first entry under media/ with the target's
\* extension, <<>> when there is neither
findImageData(files, candidates, imagePath) ==
    The({IF hits # <<>> THEN hits[1]
         ELSE The({IF mediaFiles # <<>> THEN mediaFiles[1] ELSE <<>>
                     : mediaFiles \in {SelectSeq(files, LAMBDA name :
                           /\ Includes(name, MediaDir)
                           /\ EndsWith(name, <<".">> \o extensionOf(imagePath)))}})
           : hits \in {SelectSeq(candidates, LAMBDA p : InArchive(files, p))}})

\* relationships[embed], <<>> for undefined
TargetOf(relMap, embed) ==
    IF \E k \in 1..Len(relMap) : relMap[k].id = embed
    THEN relMap[CHOOSE k \in 1..Len(relMap) :
                          /\ relMap[k].id = embed
                          /\ \A j \in (k + 1)..Len(relMap) :
                                relMap[j].id # embed].target
    ELSE <<>>

\* Array.prototype.join
JoinWith(parts, sep) ==
    Flatten([i \in 1..(2 * Len(parts) - 1) |->
                IF i % 2 = 1 THEN parts[(i + 1) \div 2] ELSE sep])

NonEmpty(parts) == SelectSeq(parts, LAMBDA t : t # <<>>)

\* the runs of a paragraph joined, the paragraphs that hold a run joined
\* by line breaks
extractTextFromShape(paras) ==
    JoinWith(NonEmpty([p \in 1..Len(paras) |-> Flatten(NonEmpty(paras[p]))]), <<"\n">>)

\* the rows that hold a cell
extractTableData(rows) == SelectSeq(rows, LAMBDA row : row # <<>>)

\* the cells that hold text joined by " | ", the rows that hold one joined
\* by line breaks
extractTextFromTable(rows) ==
    JoinWith(NonEmpty([r \in 1..Len(rows) |-> JoinWith(NonEmpty(rows[r]), <<" ", "|", " ">>)]),
             <<"\n">>)

\* textContent.trim() is empty
IsBlank(text) == \A i \in 1..Len(text) : text[i] \in {" ", "\n", "\t"}

\* allElements: the children grouped by tag
allElements(tree) ==
    SelectSeq(tree, LAMBDA n : n.tag = "p:sp")
    \o SelectSeq(tree, LAMBDA n : n.tag = "p:pic")
    \o SelectSeq(tree, LAMBDA n : n.tag = "p:cxnSp")
    \o SelectSeq(tree, LAMBDA n : n.tag = "p:graphicFrame")

\* the transform used: the default when none was found
DefaultTransform == << <<"0">>, <<"0">>, OneInch, OneInch>>

transformOf(node) == IF node.xfrm = <<>> THEN DefaultTransform ELSE node.xfrm

\* x, y, width, height of the element
InchesOf(node) == [k \in 1..4 |-> toInches(transformOf(node)[k])]

NewElement(type, idx, node) ==
    [type |-> type, idx |-> idx, at |-> InchesOf(node),
     content |-> <<>>, tableData |-> <<>>, data |-> <<>>]

\* what the text branch of the loop body pushes for allElements[idx]
TextElements(node, idx) ==
    IF ~(/\ node.tag \in {"p:sp", "p:graphicFrame"}
         /\ (node.paras # <<>> \/ node.graphic # "none"))
    THEN <<>>
    ELSE The({
        The({(IF inTable /\ extractTableData(node.rows) # <<>>
              THEN <<[NewElement("table", idx, node)
                        EXCEPT !.tableData = extractTableData(node.rows)]>>
              ELSE <<>>)
             \o (IF IsBlank(IF inTable THEN extractTextFromTable(node.rows) ELSE shapeText)
                 THEN <<>>
                 ELSE <<[NewElement("text", idx, node)
                           EXCEPT !.content = IF inTable
                                              THEN extractTextFromTable(node.rows)
                                              ELSE shapeText]>>)
               : inTable \in {shapeText = <<>> /\ node.graphic = "table"}})
          : shapeText \in {extractTextFromShape(node.paras)}})

\* what the image branch pushes
ImageElements(node, idx, relMap, files, slideNum) ==
    IF ~(node.tag = "p:pic" /\ node.embed # <<>>) THEN <<>>
    ELSE The({
        IF imagePath = <<>> \/ ~isLikelyImage(imagePath) THEN <<>>
        ELSE The({IF data = <<>> THEN <<>>
                  ELSE <<[NewElement("image", idx, node) EXCEPT !.data = data]>>
                    : data \in {findImageData(files, possiblePaths(imagePath, slideNum),
                                              imagePath)}})
          : imagePath \in {TargetOf(relMap, node.embed)}})

\* the elements returned; idx counts from 0
extractSlideElements(tree, relMap, files, slideNum) ==
    The({Flatten([k \in 1..Len(all) |->
                     TextElements(all[k], k - 1)
                     \o ImageElements(all[k], k - 1, relMap, files, slideNum)])
           : all \in {allElements(tree)}})

\* the slides, relMap and archives the extractor is called with
ExtractShape(paras, xfrm) ==
    [tag |-> "p:sp", xfrm |-> xfrm, paras |-> paras, graphic |-> "none",
     rows |-> <<>>, embed |-> <<>>]

OneInchBox == <<OneInch, OneInch, OneInch, OneInch>>

ExtractNodes ==
    {ExtractShape(<< <<(<<"a">>)>> >>, OneInchBox),
     ExtractShape(<<>>, OneInchBox),
     ExtractShape(<< <<(<<"b">>)>> >>, <<>>),
     ExtractShape(<< <<(<<" ">>)>> >>, OneInchBox),
     [tag |-> "p:pic", xfrm |-> OneInchBox, paras |-> <<>>, graphic |-> "none",
      rows |-> <<>>, embed |-> PictureRel.id],
     [tag |-> "p:cxnSp", xfrm |-> OneInchBox, paras |-> <<>>, graphic |-> "none",
      rows |-> <<>>, embed |-> <<>>],
     [tag |-> "p:graphicFrame", xfrm |-> OneInchBox, paras |-> <<>>, graphic |-> "table",
      rows |-> << <<(<<"A">>), <<"B">> >> >>, embed |-> <<>>]}

Png == <<".", "p", "n", "g">>

ExtractTargets ==
    {<<".", ".", "/">> \o MediaDir \o <<"a">> \o Png,
     <<"i", "m", "g", "/", "a">> \o Png,
     <<".", ".", "/">> \o MediaDir \o <<"b", ".", "j", "p", "g">>,
     <<".", ".", "/">> \o LayoutsDir \o LayoutWord \o <<"1">> \o XmlSuffix}

ExtractArchives ==
    {<<SlidePath(1), PptDir \o MediaDir \o <<"a">> \o Png,
       PptDir \o LayoutsDir \o LayoutWord \o <<"1">> \o XmlSuffix>>,
     <<PptDir \o <<"i", "m", "g", "/", "a">> \o Png, PptDir \o MediaDir \o <<"a">> \o Png,
       SlidePath(1)>>,
     <<SlidePath(1), PptDir \o MediaDir \o <<"c">> \o Png,
       PptDir \o <<"i", "m", "g", "/", "a">> \o Png>>,
     <<SlidePath(1), PptDir \o MediaDir \o <<"c">> \o Png>>}

InitExtract ==
    /\ xTree \in UNION {[1..k -> ExtractNodes] : k \in 1..MaxTree}
    /\ xRels \in {<<>>} \cup {<<[id |-> PictureRel.id, target |-> t]>> : t \in ExtractTargets}
    /\ xFiles \in ExtractArchives
    /\ xOut = <<>>
    /\ xPc = "start"
    /\ IdleExceptExtract

\* const elements = await extractSlideElements(slideData, relationships, contents, i + 1)
ExtractElements ==
    /\ xPc = "start"
    /\ xOut' = extractSlideElements(xTree, xRels, xFiles, 1)
    /\ xPc' = "done"
    /\ UNCHANGED <<xTree, xRels, xFiles>>
    /\ UNCHANGED exceptExtract

NextExtract == ExtractElements

SpecExtract == InitExtract /\ [][NextExtract]_vars

\* the elements made of allElements[k]
ElementsAt(k) == SelectSeq(xOut, LAMBDA e : e.idx = k - 1)

\* C22: every child of the shape tree that is a shape, picture, connector
\* or graphic frame is represented by at least one element, and a child
\* without a transform is represented at offset (0, 0) with extent 1 inch
\* by 1 inch.
EveryNodeRepresented ==
    xPc = "done"
    => \A k \in 1..Len(allElements(xTree)) :
          /\ ElementsAt(k) # <<>>
          /\ allElements(xTree)[k].xfrm = <<>>
             => \A j \in 1..Len(ElementsAt(k)) :
                   ElementsAt(k)[j].at = [i \in 1..4 |-> toInches(DefaultTransform[i])]

\* the entry a target resolves to when the candidates are probed in the
\* order ppt/<target>, ppt/media/<target>, <target>, basename
ResolvedInOrder(imagePath) ==
    findImageData(xFiles, possiblePaths_earlier(imagePath, 1), imagePath)

\* the pictures whose relationship has a target
PicturesWithTarget ==
    {k \in 1..Len(allElements(xTree)) :
        /\ allElements(xTree)[k].tag = "p:pic"
        /\ allElements(xTree)[k].embed # <<>>
        /\ TargetOf(xRels, allElements(xTree)[k].embed) # <<>>}

\* C24: the bytes of a picture are those of the first existing path in the
\* order ppt/<target>, ppt/media/<target>, <target>, the basename under
\* the media directories, else of the first entry under media/ with the
\* target's extension; a target that none of these resolves leaves out
\* that element only, a target that resolves gives an image element.
ProbeOrder ==
    xPc = "done"
    => \A k \in PicturesWithTarget :
          LET want == ResolvedInOrder(TargetOf(xRels, allElements(xTree)[k].embed))
          IN  /\ \A j \in 1..Len(ElementsAt(k)) : ElementsAt(k)[j].data = want
              /\ want = <<>> => ElementsAt(k) = <<>>
              /\ \A i \in 1..Len(allElements(xTree)) :
                    i # k => ElementsAt(i)
                               = TextElements(allElements(xTree)[i], i - 1)
                                 \o ImageElements(allElements(xTree)[i], i - 1,
                                                  xRels, xFiles, 1)

(***************************************************************************)
(* POST /api/generate: the files of one request in the uploads directory.  *)
(* multer has stored the request's files before the handler runs.          *)
(***************************************************************************)
MaxUploaded == 2

MaxExtracted == 2

\* req.files, the images parsePptx writes, tempPath, outputPath
UploadedFiles == {[kind |-> "uploaded", n |-> k] : k \in 1..MaxUploaded}

ExtractedFiles == {[kind |-> "extracted", n |-> k] : k \in 1..MaxExtracted}

TempFile == [kind |-> "temp", n |-> 1]

OutputFile == [kind |-> "output", n |-> 1]

RequestFiles == UploadedFiles \cup ExtractedFiles \cup {TempFile, OutputFile}

InitClean ==
    /\ cFiles \in SUBSET UploadedFiles
    /\ cCreated = cFiles
    /\ cPc = "start"
    /\ IdleExceptClean

\* if (!fs.existsSync(originalPath)) return res.status(400)...
OriginalMissing ==
    /\ cPc = "start"
    /\ cPc' = "answered"
    /\ UNCHANGED <<cFiles, cCreated>>
    /\ UNCHANGED exceptClean

\* const originalSlides = await parsePptx(originalPath): every picture
\* found is written to uploads/; the call returns or throws
ParseOriginal ==
    /\ cPc = "start"
    /\ \E written \in SUBSET ExtractedFiles :
          /\ cFiles' = cFiles \cup written
          /\ cCreated' = cCreated \cup written
    /\ \E threw \in BOOLEAN : cPc' = IF threw THEN "answered" ELSE "loop"
    /\ UNCHANGED exceptClean

\* the slide loop; an entry without elements throws, the catch answers 500
PatchSlides ==
    /\ cPc = "loop"
    /\ \E threw \in BOOLEAN : cPc' = IF threw THEN "answered" ELSE "patched"
    /\ UNCHANGED <<cFiles, cCreated>>
    /\ UNCHANGED exceptClean

\* fs.writeFileSync(tempPath, updatedBuffer)
WriteTemp ==
    /\ cPc = "patched"
    /\ cFiles' = cFiles \cup {TempFile}
    /\ cCreated' = cCreated \cup {TempFile}
    /\ cPc' = "temp"
    /\ UNCHANGED exceptClean

\* await fixPptxImageDimensions(tempPath, outputPath): true with the output
\* written, false without
NormalizeTemp ==
    /\ cPc = "temp"
    /\ \E ok \in BOOLEAN :
          /\ cFiles' = IF ok THEN cFiles \cup {OutputFile} ELSE cFiles
          /\ cCreated' = IF ok THEN cCreated \cup {OutputFile} ELSE cCreated
    /\ cPc' = "fixed"
    /\ UNCHANGED exceptClean

\* fs.unlink(tempPath, resolve)
UnlinkTemp ==
    /\ cPc = "fixed"
    /\ cFiles' = cFiles \ {TempFile}
    /\ cPc' = "ready"
    /\ UNCHANGED cCreated
    /\ UNCHANGED exceptClean

\* res.download(outputPath, downloadFilename, callback)
Download ==
    /\ cPc = "ready"
    /\ cPc' = "sent"
    /\ UNCHANGED <<cFiles, cCreated>>
    /\ UNCHANGED exceptClean

\* the callback's timer: unlink of outputPath and of every file of req.files
CleanUp ==
    /\ cPc = "sent"
    /\ cFiles' = cFiles \ ({OutputFile} \cup UploadedFiles)
    /\ cPc' = "cleaned"
    /\ UNCHANGED cCreated
    /\ UNCHANGED exceptClean

NextClean ==
    \/ OriginalMissing
    \/ ParseOriginal
    \/ PatchSlides
    \/ WriteTemp
    \/ NormalizeTemp
    \/ UnlinkTemp
    \/ Download
    \/ CleanUp

SpecClean == InitClean /\ [][NextClean]_vars

\* every step of the handler that can be taken is taken
SpecCleanFair == SpecClean /\ WF_vars(NextClean)

\* C26: every file the request created in the uploads directory (its
\* uploaded files, the images parsePptx extracted, the temporary archive,
\* the output archive) is eventually deleted, when the request succeeds
\* and when it fails after the file was created.
TemporaryFilesRemoved ==
    \A f \in RequestFiles : (f \in cCreated) ~> (f \notin cFiles)

(***************************************************************************)
(* POST /api/generate: the text elements of one entry.  The slide holds    *)
(* two text shapes A and B of one run each; the entry holds one text       *)
(* element for each, matched by id to the element extracted from it.       *)
(***************************************************************************)
OrderTexts == {<<"a">>, <<"b">>}

OrderNewTexts == OrderTexts \cup {<<"c">>}

\* the two elements: shape, content of the matched original, content
OrderElements(a, a2, b, b2) ==
    <<[shape |-> 1, old |-> a, new |-> a2], [shape |-> 2, old |-> b, new |-> b2]>>

Reversed(s) == [i \in 1..Len(s) |-> s[Len(s) + 1 - i]]

InitOrder ==
    /\ \E a, b \in OrderTexts :
          /\ oXml = SourceXml(<<TextShape(<< <<a>> >>), TextShape(<< <<b>> >>)>>)
          /\ \E a2, b2 \in OrderNewTexts :
                oEdits \in {OrderElements(a, a2, b, b2), Reversed(OrderElements(a, a2, b, b2))}
    /\ oI = 0
    /\ oLocal = <<>>
    /\ oPc = "start"
    /\ IdleExceptOrder

\* let slideXml = await contents.files[slideFile].async('string')
OrderBegin ==
    /\ oPc = "start"
    /\ oLocal' = oXml
    /\ oPc' = "slide"
    /\ UNCHANGED <<oXml, oEdits, oI>>
    /\ UNCHANGED exceptOrder

\* the text branch for the next element of the entry
OrderEdit ==
    /\ oPc = "slide"
    /\ oI < Len(oEdits)
    /\ oLocal' = IF oEdits[oI + 1].old # oEdits[oI + 1].new
                 THEN replaceTextInXml(oLocal, oEdits[oI + 1].old, oEdits[oI + 1].new)
                 ELSE oLocal
    /\ oI' = oI + 1
    /\ UNCHANGED <<oXml, oEdits, oPc>>
    /\ UNCHANGED exceptOrder

\* contents.file(slideFile, slideXml)
OrderWriteBack ==
    /\ oPc = "slide"
    /\ oI = Len(oEdits)
    /\ oXml' = oLocal
    /\ oPc' = "written"
    /\ UNCHANGED <<oEdits, oI, oLocal>>
    /\ UNCHANGED exceptOrder

NextOrder ==
    \/ OrderBegin
    \/ OrderEdit
    \/ OrderWriteBack

SpecOrder == InitOrder /\ [][NextOrder]_vars

\* C27: whatever the order of the two elements in the entry, and also when
\* the new text of one is the old text of the other or both old texts are
\* equal, each run ends with the new content of the element that was
\* extracted from it.
EditsOrderIndependent ==
    oPc = "written"
    => \A k \in 1..Len(oEdits) : RunBodiesOf(oXml, 1)[oEdits[k].shape] = oEdits[k].new

(***************************************************************************)
(* processImageForPptx: one call on an archive of one slide.               *)
(***************************************************************************)
MaxImageTicks == 2

\* slides: text only, text and a picture, picture first, two pictures
ImageSlides ==
    {SourceXml(<<GenTextShape>>),
     SourceXml(<<GenTextShape, GenPicture>>),
     SourceXml(<<GenPicture, GenTextShape>>),
     BrokenSlide}

\* relationship parts: none, an empty entry, <Relationships/>, the layout
\* only (the picture's id is declared by the layout's part), layout and
\* picture
ImageRels ==
    {NoRels, EmptiedRels, [kind |-> "bare", rels |-> <<>>],
     [kind |-> "doc", rels |-> <<LayoutRel>>],
     [kind |-> "doc", rels |-> <<LayoutRel, PictureRel>>]}

InitImage ==
    /\ iC \in [slides : {<<s>> : s \in ImageSlides}, rels : {<<r>> : r \in ImageRels}]
    /\ iElement \in GenImages
    /\ iNow \in ClockStart..(ClockStart + MaxImageTicks - 1)
    /\ iOut = <<>>
    /\ iPc = "start"
    /\ IdleExceptImage

\* await processImageForPptx(contents, imagePath, slideId - 1, {...})
ProcessImage ==
    /\ iPc = "start"
    /\ iOut' = processImageForPptx(iC, 1, iElement, iNow)
    /\ iPc' = "done"
    /\ UNCHANGED <<iC, iElement, iNow>>
    /\ UNCHANGED exceptImage

NextImage == ProcessImage

SpecImage == InitImage /\ [][NextImage]_vars

\* the entries of rels whose target differs in the part written
Retargeted(before, after) ==
    {k \in 1..Len(before.rels) : after.rels[k].target # before.rels[k].target}

\* C29: after a call on a slide whose relationship part is a Relationships
\* document, the part is still such a document declaring, in place, every
\* id it declared before, with at most the target of one changed or one id
\* added; also when the picture matched embeds an id the part does not
\* declare and when the call fails.
RelsPreserved ==
    (iPc = "done" /\ iC.rels[1].kind = "doc")
    => /\ iOut.rels[1].kind = "doc"
       /\ Len(iOut.rels[1].rels) >= Len(iC.rels[1].rels)
       /\ Len(iOut.rels[1].rels) <= Len(iC.rels[1].rels) + 1
       /\ \A k \in 1..Len(iC.rels[1].rels) : iOut.rels[1].rels[k].id = iC.rels[1].rels[k].id
       /\ Cardinality(Retargeted(iC.rels[1], iOut.rels[1]))
             + (Len(iOut.rels[1].rels) - Len(iC.rels[1].rels)) <= 1

====
